---- MODULE Spec2Model ----
(***************************************************************************)
(* Collaborative-filtering core of the Romantasy recommender:              *)
(*   backend/app/services/similarity.py             (similarity writers)   *)
(*   backend/app/services/recommendation_service.py (recommendation reads) *)
(* The database tables are sets of rows; floats are fixed-point numbers in *)
(* thousandths (Scale), rounded toward zero, where a non-zero value never  *)
(* rounds to zero, so every sign test of the code is decided exactly.      *)
(***************************************************************************)
EXTENDS Integers, Sequences, FiniteSets, TLC

VARIABLES
    ratings,    \* table ratings: rows [user_id, book_id, rating]
    allow,      \* users.allow_data_for_recs, per row of table users
    edges,      \* table user_similarities (committed rows)
    last,       \* the last operation that ran, with what it computed
    recs,       \* the value returned by the last get_recommendations call
    single,     \* session of an in-flight compute_user_similarity call
    batch,      \* session of an in-flight compute_all job
    ops         \* number of operations run so far

vars == <<ratings, allow, edges, last, recs, single, batch, ops>>

\* ------------------------------------------------------------------------
\* Bounds of the model
\* ------------------------------------------------------------------------
NUsers == 4
NBooks == 8
\* operations in one run of the similarity store machine
MaxOps == 4
\* operations in one run of the recommendation machine
MaxRecOps == 3
\* similarity runs started in one run of the concurrent writers
MaxConcOps == 3

Users == 1..NUsers
Books == 1..NBooks

\* ------------------------------------------------------------------------
\* Configuration (app/core/config.py, read through get_settings()).  The
\* values are environment-overridable settings; the model runs the
\* deployment MIN_OVERLAP_FOR_SIMILARITY=2, MAX_NEIGHBORS_PER_USER=2 (the
\* spec's worked scenario uses min_overlap=2), with the default shrinkage.
\* ------------------------------------------------------------------------
min_overlap == 2
shrinkage_factor == 10
max_neighbors == 2

\* Resolution of the Float columns and Python floats: thousandths.
Scale == 1000

\* ------------------------------------------------------------------------
\* Generic helpers
\* ------------------------------------------------------------------------
Abs(x) == IF x < 0 THEN -x ELSE x

Sign(x) == IF x < 0 THEN -1 ELSE IF x > 0 THEN 1 ELSE 0

Min(a, b) == IF a <= b THEN a ELSE b

Range(s) == {s[i] : i \in DOMAIN s}

RECURSIVE SumOver(_, _)
SumOver(S, f) ==
    IF S = {} THEN 0
    ELSE LET x == CHOOSE y \in S : TRUE
         IN f[x] + SumOver(S \ {x}, f)

RECURSIVE SetToSeqAsc(_)
SetToSeqAsc(S) ==
    IF S = {} THEN <<>>
    ELSE LET m == CHOOSE y \in S : \A z \in S : y <= z
         IN <<m>> \o SetToSeqAsc(S \ {m})

RECURSIVE ISqrtIter(_, _, _)
ISqrtIter(x, lo, hi) ==
    IF lo >= hi THEN lo
    ELSE LET mid == (lo + hi + 1) \div 2
         IN IF mid * mid <= x THEN ISqrtIter(x, mid, hi)
                              ELSE ISqrtIter(x, lo, mid - 1)

\* floor(sqrt(x)) for 0 <= x < 2^31
ISqrt(x) == ISqrtIter(x, 0, 46340)

\* n / sqrt(d) in thousandths, for d > 0 and n*n <= d (Cauchy-Schwarz).
\* The root is taken at the largest precision 32-bit integers allow.
FixedRatio(n, d) ==
    IF n = 0 THEN 0
    ELSE LET m == IF d <= 2147 THEN 1000 ELSE IF d <= 214748 THEN 100 ELSE 10
             q == (Abs(n) * Scale * m) \div ISqrt(d * m * m)
         IN Sign(n) * (IF q = 0 THEN 1 ELSE q)

\* ------------------------------------------------------------------------
\* Rating table queries
\* ------------------------------------------------------------------------
\* Rating has UniqueConstraint(user_id, book_id): at most one row per pair.
HasRow(R, u, b) == \E r \in R : r.user_id = u /\ r.book_id = b

RowOf(R, u, b) == CHOOSE r \in R : r.user_id = u /\ r.book_id = b

\* _get_user_ratings: {book_id: float(rating)} over rows with rating > 0
UserRatings(R, u) ==
    LET rows == {r \in R : r.user_id = u /\ r.rating > 0}
    IN [b \in {r.book_id : r \in rows} |-> RowOf(R, u, b).rating]

\* _get_candidate_users: opted-in other users with at least min_overlap
\* positive ratings on the user's books (in ascending id order)
CandidateUsers(R, A, u, user_books) ==
    SetToSeqAsc({n \in (Users \cap DOMAIN A) \ {u} :
        /\ A[n]
        /\ Cardinality({r \in R : /\ r.user_id = n
                                  /\ r.rating > 0
                                  /\ r.book_id \in user_books}) >= min_overlap})

\* ------------------------------------------------------------------------
\* SimilarityComputer
\* ------------------------------------------------------------------------
\* the raw similarity stored as the adjusted one
AdjustedSimilarityUnweighted(raw, overlap_count) == raw

\* significance weighting: raw * (overlap / (overlap + shrinkage))
AdjustedSimilarity(raw, overlap_count) ==
    IF raw = 0 THEN 0
    ELSE LET q == (Abs(raw) * overlap_count) \div (overlap_count + shrinkage_factor)
         IN Sign(raw) * (IF q = 0 THEN 1 ELSE q)

\* _pearson_correlation with user_mean passed in: the target's mean is the
\* mean of ALL its ratings (cu of them, summing to su), the neighbor's mean
\* is taken over the overlap.  Deviations are kept as integers scaled by
\* the counts; the scale factors cancel in the quotient.
PearsonCorrelation(user_ratings, neighbor_ratings, overlap_books) ==
    IF overlap_books = {} THEN [none |-> TRUE, value |-> 0]
    ELSE LET cu == Cardinality(DOMAIN user_ratings)
             su == SumOver(DOMAIN user_ratings, user_ratings)
             k  == Cardinality(overlap_books)
             sn == SumOver(overlap_books, [b \in overlap_books |-> neighbor_ratings[b]])
             du == [b \in overlap_books |-> user_ratings[b] * cu - su]
             dn == [b \in overlap_books |-> neighbor_ratings[b] * k - sn]
             numerator == SumOver(overlap_books, [b \in overlap_books |-> du[b] * dn[b]])
             user_var == SumOver(overlap_books, [b \in overlap_books |-> du[b] * du[b]])
             neighbor_var == SumOver(overlap_books, [b \in overlap_books |-> dn[b] * dn[b]])
         IN IF user_var = 0 \/ neighbor_var = 0
            THEN [none |-> TRUE, value |-> 0]
            ELSE [none |-> FALSE, value |-> FixedRatio(numerator, user_var * neighbor_var)]

\* results.sort(key=adjusted_similarity, reverse=True): a stable sort
RECURSIVE InsertDesc(_, _)
InsertDesc(sorted, e) ==
    IF sorted = <<>> THEN <<e>>
    ELSE IF Head(sorted).adjusted_similarity >= e.adjusted_similarity
         THEN <<Head(sorted)>> \o InsertDesc(Tail(sorted), e)
         ELSE <<e>> \o sorted

RECURSIVE SortDesc(_)
SortDesc(s) ==
    IF s = <<>> THEN <<>>
    ELSE InsertDesc(SortDesc(SubSeq(s, 1, Len(s) - 1)), s[Len(s)])

\* a slice that keeps the end of the list
TruncateTail(s, n) == SubSeq(s, Len(s) - Min(Len(s), n) + 1, Len(s))

Truncate(s, n) == SubSeq(s, 1, Min(Len(s), n))

\* the body of the candidate loop of compute_for_user: the edge for one
\* neighbor, or <<>> when the neighbor is skipped
NeighborResult(R, u, user_ratings, n) ==
    LET neighbor_ratings == UserRatings(R, n)
        overlap_books == DOMAIN user_ratings \cap DOMAIN neighbor_ratings
        overlap_count == Cardinality(overlap_books)
        raw_sim == PearsonCorrelation(user_ratings, neighbor_ratings, overlap_books)
    IN IF overlap_count < min_overlap THEN <<>>
       ELSE IF raw_sim.none THEN <<>>
       ELSE << [user_id |-> u,
                neighbor_id |-> n,
                similarity_score |-> raw_sim.value,
                overlap_count |-> overlap_count,
                adjusted_similarity |-> AdjustedSimilarity(raw_sim.value, overlap_count)] >>

RECURSIVE CollectResults(_, _, _, _)
CollectResults(R, u, user_ratings, cands) ==
    IF cands = <<>> THEN <<>>
    ELSE NeighborResult(R, u, user_ratings, Head(cands))
            \o CollectResults(R, u, user_ratings, Tail(cands))

\* a user is never turned away for having few ratings
NeverTooFewRatings(user_ratings) == FALSE

\* compute_for_user, line 74: the user has fewer than min_overlap ratings
TooFewRatings(user_ratings) == Cardinality(DOMAIN user_ratings) < min_overlap

\* compute_for_user, lines 72-81: whether _get_candidate_users is queried,
\* and the candidates the loop then examines
CandidatesExamined(R, A, u) ==
    LET user_ratings == UserRatings(R, u)
    IN IF TooFewRatings(user_ratings)
       THEN [queried |-> FALSE, candidates |-> <<>>]
       ELSE [queried |-> TRUE,
             candidates |-> CandidateUsers(R, A, u, DOMAIN user_ratings)]

\* SimilarityComputer.compute_for_user
ComputeForUser(R, A, u) ==
    LET user_ratings == UserRatings(R, u)
    IN IF TooFewRatings(user_ratings) THEN <<>>
       ELSE Truncate(SortDesc(CollectResults(R, u, user_ratings,
                        CandidateUsers(R, A, u, DOMAIN user_ratings))),
                     max_neighbors)

\* a delete that filters on the wrong column
DeleteByNeighbor(E, user_id) == {e \in E : e.neighbor_id # user_id}

\* SimilarityComputer.save_similarities, line 208: the rows left by
\* DELETE FROM user_similarities WHERE user_id = :user_id
DeleteForUser(E, user_id) == {e \in E : e.user_id # user_id}

\* UserSimilarity has UniqueConstraint(user_id, neighbor_id): the flush of
\* the pending rows fails with IntegrityError when a key is already there
\* or is inserted twice
SameKey(e, f) == e.user_id = f.user_id /\ e.neighbor_id = f.neighbor_id

ViolatesUnique(E, rows) ==
    \/ \E e \in E, r \in rows : SameKey(e, r)
    \/ \E r1 \in rows, r2 \in rows : r1 # r2 /\ SameKey(r1, r2)

\* SimilarityComputer.save_similarities run in one session against the
\* committed table E: the table afterwards (unchanged when the transaction
\* fails and is rolled back), the return value and whether it raised
SaveSimilarities(E, results) ==
    IF results = <<>> THEN [edges |-> E, saved |-> 0, error |-> FALSE]
    ELSE LET kept == DeleteForUser(E, results[1].user_id)
         IN IF ViolatesUnique(kept, Range(results))
            THEN [edges |-> E, saved |-> 0, error |-> TRUE]
            ELSE [edges |-> kept \cup Range(results),
                  saved |-> Len(results), error |-> FALSE]

\* ------------------------------------------------------------------------
\* BatchSimilarityComputer
\* ------------------------------------------------------------------------
\* the users with at least min_overlap ratings > 0, opted in or not
EligibleUsersIgnoringOptIn(R, A) ==
    SetToSeqAsc({u \in Users :
        Cardinality({r \in R : r.user_id = u /\ r.rating > 0}) >= min_overlap})

\* _get_eligible_users: opted in, at least min_overlap ratings > 0
EligibleUsers(R, A) ==
    SetToSeqAsc({u \in Users \cap DOMAIN A :
        /\ A[u]
        /\ Cardinality({r \in R : r.user_id = u /\ r.rating > 0}) >= min_overlap})

\* _build_rating_matrix: one sparse row per eligible user, holding its
\* ratings > 0; None when there is no user
BuildRatingMatrix(R, user_ids) ==
    [u \in Range(user_ids) |-> UserRatings(R, u)]

\* _compute_similarity_matrix, lines 361-371: the row minus the mean of its
\* non-zero entries, as integers scaled by the row's count
CenteredRow(row) ==
    LET cnt == Cardinality(DOMAIN row)
        sum == SumOver(DOMAIN row, row)
    IN [b \in DOMAIN row |-> row[b] * cnt - sum]

SquaredNorm(crow) == SumOver(DOMAIN crow, [b \in DOMAIN crow |-> crow[b] * crow[b]])

\* _compute_similarity_matrix, lines 374-383: one entry of normalized @
\* normalized.T; a zero row keeps norm 1 and stays zero
CosineSimilarity(matrix, u, v) ==
    LET cu == CenteredRow(matrix[u])
        cv == CenteredRow(matrix[v])
        common == DOMAIN cu \cap DOMAIN cv
        dot == SumOver(common, [b \in common |-> cu[b] * cv[b]])
    IN IF SquaredNorm(cu) = 0 \/ SquaredNorm(cv) = 0 THEN 0
       ELSE FixedRatio(dot, SquaredNorm(cu) * SquaredNorm(cv))

\* an overlap test that lets every pair through
OverlapNeverTooSmall(overlap_count) == FALSE

\* _extract_user_similarities, line 411: the overlap test
BatchOverlapTooSmall(overlap_count) == overlap_count < min_overlap

\* the loop body with only the negative similarities discarded
BatchNeighborResultKeepingZero(matrix, user_id, neighbor_id) ==
    LET raw_sim == CosineSimilarity(matrix, user_id, neighbor_id)
        overlap_count == Cardinality(DOMAIN matrix[user_id] \cap DOMAIN matrix[neighbor_id])
    IN IF neighbor_id = user_id THEN <<>>
       ELSE IF raw_sim < 0 THEN <<>>
       ELSE IF BatchOverlapTooSmall(overlap_count) THEN <<>>
       ELSE << [user_id |-> user_id,
                neighbor_id |-> neighbor_id,
                similarity_score |-> raw_sim,
                overlap_count |-> overlap_count,
                adjusted_similarity |-> AdjustedSimilarity(raw_sim, overlap_count)] >>

\* the body of the loop of _extract_user_similarities
BatchNeighborResult(matrix, user_id, neighbor_id) ==
    LET raw_sim == CosineSimilarity(matrix, user_id, neighbor_id)
        overlap_count == Cardinality(DOMAIN matrix[user_id] \cap DOMAIN matrix[neighbor_id])
    IN IF neighbor_id = user_id THEN <<>>
       ELSE IF raw_sim <= 0 THEN <<>>
       ELSE IF BatchOverlapTooSmall(overlap_count) THEN <<>>
       ELSE << [user_id |-> user_id,
                neighbor_id |-> neighbor_id,
                similarity_score |-> raw_sim,
                overlap_count |-> overlap_count,
                adjusted_similarity |-> AdjustedSimilarity(raw_sim, overlap_count)] >>

RECURSIVE BatchCollect(_, _, _)
BatchCollect(matrix, user_id, others) ==
    IF others = <<>> THEN <<>>
    ELSE BatchNeighborResult(matrix, user_id, Head(others))
            \o BatchCollect(matrix, user_id, Tail(others))

\* BatchSimilarityComputer._extract_user_similarities
ExtractUserSimilarities(matrix, user_ids, user_id) ==
    Truncate(SortDesc(BatchCollect(matrix, user_id, user_ids)), max_neighbors)

\* the neighbor lists compute_all extracts, per eligible user
BatchLists(R, A) ==
    LET user_ids == EligibleUsers(R, A)
        matrix == BuildRatingMatrix(R, user_ids)
    IN [u \in Range(user_ids) |-> ExtractUserSimilarities(matrix, user_ids, u)]

\* _save_user_similarities: delete the user's rows, add the new ones
SaveUserSimilarities(E, user_id, similarities) ==
    DeleteForUser(E, user_id) \cup Range(similarities)

\* the loop with every user counted as processed
RECURSIVE BatchLoopCountingAll(_, _, _, _)
BatchLoopCountingAll(E, lists, todo, stats) ==
    IF todo = <<>> THEN [edges |-> E, stats |-> stats]
    ELSE LET user_id == Head(todo)
             similarities == lists[user_id]
         IN IF similarities # <<>>
            THEN BatchLoopCountingAll(SaveUserSimilarities(E, user_id, similarities), lists,
                    Tail(todo),
                    [stats EXCEPT !.users_processed = @ + 1,
                                  !.similarities_computed = @ + Len(similarities)])
            ELSE BatchLoopCountingAll(E, lists, Tail(todo),
                    [stats EXCEPT !.users_processed = @ + 1])

\* the loop of compute_all, lines 277-290, over the users still to do
RECURSIVE BatchLoop(_, _, _, _)
BatchLoop(E, lists, todo, stats) ==
    IF todo = <<>> THEN [edges |-> E, stats |-> stats]
    ELSE LET user_id == Head(todo)
             similarities == lists[user_id]
         IN IF similarities # <<>>
            THEN BatchLoop(SaveUserSimilarities(E, user_id, similarities), lists, Tail(todo),
                    [stats EXCEPT !.users_processed = @ + 1,
                                  !.similarities_computed = @ + Len(similarities)])
            ELSE BatchLoop(E, lists, Tail(todo),
                    [stats EXCEPT !.users_skipped = @ + 1])

ZeroStats == [users_processed |-> 0, similarities_computed |-> 0, users_skipped |-> 0]

\* BatchSimilarityComputer.compute_all run alone, start to commit
ComputeAllResult(R, A, E) ==
    LET user_ids == EligibleUsers(R, A)
    IN IF user_ids = <<>> THEN [edges |-> E, stats |-> ZeroStats]
       ELSE BatchLoop(E, BatchLists(R, A), user_ids, ZeroStats)

\* ------------------------------------------------------------------------
\* State
\* ------------------------------------------------------------------------
Row(u, b, v) == [user_id |-> u, book_id |-> b, rating |-> v]

NoRecs == [called |-> FALSE]

\* a compute_user_similarity call and its session: position, argument,
\* computed list, rows its DELETE statement saw and rows it has deleted
IdleSingle == [pc |-> "idle", user |-> 0, results |-> <<>>, snap |-> {}, deleted |-> {}]

\* a compute_all job and its session: position, extracted lists, users still
\* to do, users whose save was issued, rows the blocked DELETE saw, rows
\* deleted, rows added and not yet flushed, stats
IdleBatch ==
    [pc |-> "idle", lists |-> <<>>, todo |-> <<>>, written |-> <<>>, snap |-> {},
     deleted |-> {}, pending |-> {}, stats |-> ZeroStats]

LastOp(op, user, results, lists, stats, error) ==
    [op |-> op, user |-> user, results |-> results, lists |-> lists,
     stats |-> stats, error |-> error, book |-> 0, feedback |-> "",
     again |-> (op = "compute_user_similarity" /\ last.op = op /\ last.user = user
                /\ ~last.error)]

InitLast ==
    [op |-> "init", user |-> 0, results |-> <<>>, lists |-> <<>>,
     stats |-> ZeroStats, error |-> FALSE, book |-> 0, feedback |-> "",
     again |-> FALSE]

\* Rating tables the similarity machine starts from
SimScenarioA ==
    {Row(1, 1, 5), Row(1, 2, 3), Row(1, 3, 1),
     Row(2, 1, 4), Row(2, 2, 3), Row(2, 3, 2),
     Row(3, 1, 1), Row(3, 2, 3), Row(3, 3, 5)}

SimScenarioB ==
    {Row(1, 1, 5), Row(1, 2, 4), Row(1, 3, 3),
     Row(2, 1, 5), Row(2, 2, 4), Row(2, 3, 3), Row(2, 4, 5),
     Row(3, 1, 3), Row(3, 2, 3)}

SimScenarioC ==
    {Row(1, 1, 5), Row(1, 2, 3),
     Row(2, 1, 4), Row(2, 2, 2),
     Row(3, 1, 2), Row(3, 2, 4), Row(3, 3, 0)}

SimScenarioD ==
    {Row(1, 1, 5), Row(1, 2, 2),
     Row(2, 1, 4), Row(2, 2, 1), Row(2, 3, 5),
     Row(3, 3, 4), Row(3, 4, 2)}

SimScenarios == {SimScenarioA, SimScenarioB, SimScenarioC, SimScenarioD, {}}

\* The onboarding payloads and feedback targets the similarity machine draws
RatePayloads == {<<2, 5>>, <<3, 1>>, <<5, 4>>}

FeedbackBooks == {4}

Feedbacks == {"interested", "not_interested", "already_read"}

Init ==
    /\ ratings \in SimScenarios
    /\ allow = [u \in Users |-> TRUE]
    /\ edges = {}
    /\ last = InitLast
    /\ recs = NoRecs
    /\ single = IdleSingle
    /\ batch = IdleBatch
    /\ ops = 0

\* ------------------------------------------------------------------------
\* Operations, each run alone from start to commit
\* ------------------------------------------------------------------------
\* compute_user_similarity(db, user_id)
ComputeUserSimilarity(u) ==
    LET results == ComputeForUser(ratings, allow, u)
        out == SaveSimilarities(edges, results)
    IN /\ edges' = out.edges
       /\ last' = LastOp("compute_user_similarity", u, results, <<>>, ZeroStats, out.error)
       /\ UNCHANGED <<ratings, allow, recs, single, batch>>

\* compute_all_similarities(db)
ComputeAll ==
    LET out == ComputeAllResult(ratings, allow, edges)
    IN /\ edges' = out.edges
       /\ last' = LastOp("compute_all", 0, <<>>, BatchLists(ratings, allow), out.stats, FALSE)
       /\ UNCHANGED <<ratings, allow, recs, single, batch>>

\* rate_starter_books, lines 204-219: update the row or add one
UpsertRating(R, u, b, v) ==
    {r \in R : ~(r.user_id = u /\ r.book_id = b)} \cup {Row(u, b, v)}

\* rate_starter_books(db, user_id, [{book_id: b, rating: v}]); the inline
\* compute_user_similarity runs once the user has OnboardingMinRatings
\* ratings > 0, and its exceptions are swallowed
OnboardingMinRatings == 5

RateStarterBooks(u, b, v) ==
    LET R2 == UpsertRating(ratings, u, b, v)
        rating_count == Cardinality({r \in R2 : r.user_id = u /\ r.rating > 0})
        results == IF rating_count >= OnboardingMinRatings
                   THEN ComputeForUser(R2, allow, u) ELSE <<>>
        out == SaveSimilarities(edges, results)
    IN /\ ratings' = R2
       /\ edges' = out.edges
       /\ last' = LastOp("rate_starter_books", u, results, <<>>, ZeroStats, FALSE)
       /\ UNCHANGED <<allow, recs, single, batch>>

\* record_feedback without the look-up of an existing row
RecordFeedbackAlwaysInsert(u, b, feedback) ==
    /\ ratings' = IF feedback = "already_read"
                  THEN ratings \cup {Row(u, b, 0)}
                  ELSE ratings
    /\ last' = [LastOp("record_feedback", u, <<>>, <<>>, ZeroStats, FALSE)
                    EXCEPT !.book = b, !.feedback = feedback,
                           !.again = (/\ last.op = "record_feedback" /\ last.user = u
                                      /\ last.book = b /\ last.feedback = feedback)]
    /\ UNCHANGED <<allow, edges, recs, single, batch>>

\* record_feedback(db, user_id, book_id, feedback); again marks a call that
\* repeats the call before it
RecordFeedback(u, b, feedback) ==
    /\ ratings' = IF feedback = "already_read" /\ ~HasRow(ratings, u, b)
                  THEN ratings \cup {Row(u, b, 0)}
                  ELSE ratings
    /\ last' = [LastOp("record_feedback", u, <<>>, <<>>, ZeroStats, FALSE)
                    EXCEPT !.book = b, !.feedback = feedback,
                           !.again = (/\ last.op = "record_feedback" /\ last.user = u
                                      /\ last.book = b /\ last.feedback = feedback)]
    /\ UNCHANGED <<allow, edges, recs, single, batch>>

\* ------------------------------------------------------------------------
\* The similarity store under sequentially applied operations
\* ------------------------------------------------------------------------
\* one more operation within the run's budget
Tick == ops < MaxOps /\ ops' = ops + 1

SimCompute(u) == Tick /\ ComputeUserSimilarity(u)

SimComputeAll == Tick /\ ComputeAll

SimRate(u, b, v) == Tick /\ RateStarterBooks(u, b, v)

Next ==
    \/ \E u \in Users : SimCompute(u)
    \/ SimComputeAll
    \/ \E u \in Users, p \in RatePayloads : SimRate(u, p[1], p[2])

Spec == Init /\ [][Next]_vars

\* ------------------------------------------------------------------------
\* Properties of the similarity store
\* ------------------------------------------------------------------------
EdgesOf(E, u) == {e \in E : e.user_id = u}

PositiveBooks(R, u) == {r.book_id : r \in {x \in R : x.user_id = u /\ x.rating > 0}}

\* C1: after compute_user_similarity(u), and after compute_all for every
\* user it computed a list for, the stored rows of the user are exactly the
\* newly computed list, the empty list included.
C1_FullReplace ==
    /\ (last.op = "compute_user_similarity" /\ ~last.error)
          => EdgesOf(edges, last.user) = Range(last.results)
    /\ last.op = "compute_all"
          => \A u \in DOMAIN last.lists : EdgesOf(edges, u) = Range(last.lists[u])

\* C2: compute_user_similarity(u) run a second time on unchanged data
\* leaves the table as the first run left it: same rows, same computed
\* list, and the second write does not fail on the unique constraint.
C2_IdempotentReplace ==
    [][(/\ last.op = "compute_user_similarity" /\ ~last.error
        /\ last'.op = "compute_user_similarity" /\ last'.user = last.user)
       => (/\ edges' = edges
           /\ ~last'.error
           /\ last'.results = last.results)]_vars

C2_Witness ==
    /\ last.op = "compute_user_similarity"
    /\ last.again
    /\ Len(last.results) = 2
    /\ EdgesOf(edges, last.user) = Range(last.results)

\* C3: every row a step writes to user_similarities has overlap_count >=
\* min_overlap, and overlap_count is the number of books both users have
\* rated > 0 in the table the step computed from.
C3_OverlapAtLeastMin ==
    [][\A e \in edges' \ edges :
          /\ e.overlap_count >= min_overlap
          /\ e.overlap_count = Cardinality(PositiveBooks(ratings', e.user_id)
                                             \cap PositiveBooks(ratings', e.neighbor_id))]_vars

C3_Witness ==
    /\ last.op = "compute_all"
    /\ \E e \in edges : e.overlap_count = min_overlap
    /\ \E u \in DOMAIN last.lists, v \in DOMAIN last.lists :
          /\ u # v
          /\ CosineSimilarity(BuildRatingMatrix(ratings, EligibleUsers(ratings, allow)), u, v) > 0
          /\ Cardinality(PositiveBooks(ratings, u) \cap PositiveBooks(ratings, v)) < min_overlap

\* ------------------------------------------------------------------------
\* The book catalog (models/book.py).  Strings are sequences of character
\* codes; a nullable column holds None or Some(value); Float columns are in
\* thousandths.
\* ------------------------------------------------------------------------
None == <<>>

Some(v) == <<v>>

\* str.lower() on ASCII text
Lower(s) == [i \in DOMAIN s |-> IF s[i] >= 65 /\ s[i] <= 90 THEN s[i] + 32 ELSE s[i]]

\* "Maas", "Yarros", "Kane", "KANE", "kane", "Black", "Rose"
AuthorMaas == <<77, 97, 97, 115>>

AuthorYarros == <<89, 97, 114, 114, 111, 115>>

AuthorKane == <<75, 97, 110, 101>>

AuthorKaneUpper == <<75, 65, 78, 69>>

AuthorKaneLower == <<107, 97, 110, 101>>

AuthorBlack == <<66, 108, 97, 99, 107>>

AuthorRose == <<82, 111, 115, 101>>

\* tag slugs "fae", "dragons", "harem"; trope arguments "FAE", "Dragons"
SlugFae == <<102, 97, 101>>

SlugDragons == <<100, 114, 97, 103, 111, 110, 115>>

SlugHarem == <<104, 97, 114, 101, 109>>

TropeFaeUpper == <<70, 65, 69>>

TropeDragonsCap == <<68, 114, 97, 103, 111, 110, 115>>

BookRow(author, is_romantasy, romantasy_confidence, publication_year, spice_level, is_ya, tags, is_why_choose, why_choose_confidence) ==
    [author |-> author, is_romantasy |-> is_romantasy,
     romantasy_confidence |-> romantasy_confidence,
     publication_year |-> publication_year, spice_level |-> spice_level,
     is_ya |-> is_ya, tags |-> tags, is_why_choose |-> is_why_choose,
     why_choose_confidence |-> why_choose_confidence]

\* The books table: two books the readers share, four Romantasy books of
\* one author written in three spellings, one book that is not Romantasy,
\* and one whose why_choose_confidence is high although the flag is unset.
Catalog(b) ==
    CASE b = 1 -> BookRow(AuthorMaas, TRUE, 1000, Some(2015), Some(3), Some(FALSE),
                          {SlugFae}, FALSE, 0)
      [] b = 2 -> BookRow(AuthorYarros, TRUE, 900, Some(2023), Some(4), Some(FALSE),
                          {SlugDragons}, FALSE, 0)
      [] b = 3 -> BookRow(AuthorKane, TRUE, 900, Some(2020), Some(2), Some(TRUE),
                          {SlugFae}, FALSE, 0)
      [] b = 4 -> BookRow(AuthorKaneUpper, TRUE, 900, Some(2020), Some(2), Some(TRUE),
                          {SlugFae, SlugDragons}, FALSE, 0)
      [] b = 5 -> BookRow(AuthorKaneLower, TRUE, 800, None, None, None,
                          {}, FALSE, 0)
      [] b = 6 -> BookRow(AuthorKane, TRUE, 800, Some(2019), Some(2), Some(FALSE),
                          {SlugHarem}, TRUE, 800)
      [] b = 7 -> BookRow(AuthorBlack, FALSE, 0, Some(2010), Some(1), Some(FALSE),
                          {}, FALSE, 0)
      [] b = 8 -> BookRow(AuthorRose, TRUE, 700, Some(2018), Some(5), Some(FALSE),
                          {SlugFae}, FALSE, 600)
      [] OTHER -> BookRow(AuthorBlack, FALSE, 0, None, None, None, {}, FALSE, 0)

\* ------------------------------------------------------------------------
\* RecommendationFilters (schemas/recommendation.py) and call arguments
\* ------------------------------------------------------------------------
Filters(spice_min, spice_max, is_ya, include_tropes, exclude_tropes, exclude_why_choose) ==
    [spice_min |-> spice_min, spice_max |-> spice_max, is_ya |-> is_ya,
     include_tropes |-> include_tropes, exclude_tropes |-> exclude_tropes,
     exclude_why_choose |-> exclude_why_choose]

FilterNone == Filters(None, None, None, None, None, Some(FALSE))

FilterDefault == Filters(None, None, None, None, None, Some(TRUE))

FilterSpicyAdult == Filters(Some(3), None, Some(FALSE), None, None, Some(FALSE))

FilterMildYa == Filters(None, Some(2), Some(TRUE), None, None, Some(TRUE))

FilterTropes == Filters(None, None, None, Some({TropeDragonsCap}), Some({SlugHarem}), None)

\* a spice range alone, and the YA flag alone
FilterSpiceRange == Filters(Some(2), Some(4), None, None, None, Some(FALSE))

FilterAdult == Filters(None, None, Some(FALSE), None, None, Some(FALSE))

FilterPresets ==
    {FilterNone, FilterDefault, FilterSpicyAdult, FilterMildYa, FilterTropes,
     FilterSpiceRange, FilterAdult}

\* (limit, offset) pairs of a call
Pages == {<<20, 0>>, <<2, 1>>}

\* A query without ORDER BY, and the rows that tie in an ORDER BY, come
\* back in an order the database chooses: ascending or descending id here.
\* NULLs sort first under DESC in PostgreSQL and last in SQLite.
QueryOrders == {[ties |-> "asc", nulls |-> "first"], [ties |-> "desc", nulls |-> "last"]}

\* ------------------------------------------------------------------------
\* RecommendationEngine (services/recommendation_service.py)
\* ------------------------------------------------------------------------
min_neighbors_for_rec == 2
diversity_author_limit == 3
NeighborLimit == 100

\* the rows of a set of records with distinct ids, by ascending or
\* descending id
RECURSIVE IdsInOrder(_, _)
IdsInOrder(S, ties) ==
    IF S = {} THEN <<>>
    ELSE LET m == IF ties = "asc" THEN CHOOSE y \in S : \A z \in S : y <= z
                                  ELSE CHOOSE y \in S : \A z \in S : y >= z
         IN <<m>> \o IdsInOrder(S \ {m}, ties)

\* _get_neighbors: (neighbor_id, similarity) of the user's rows with
\* adjusted_similarity > 0, best first, at most NeighborLimit of them
GetNeighbors(E, user_id, ties) ==
    LET rows == {e \in E : e.user_id = user_id /\ e.adjusted_similarity > 0}
        ids == IdsInOrder({e.neighbor_id : e \in rows}, ties)
        listed == [i \in DOMAIN ids |-> CHOOSE e \in rows : e.neighbor_id = ids[i]]
    IN Truncate(SortDesc(listed), NeighborLimit)

\* only the books the user gave a positive rating
RatedBookIds(R, user_id) == {r.book_id : r \in {x \in R : x.user_id = user_id /\ x.rating > 0}}

\* _get_read_book_ids: every book the user has a rating row for
ReadBookIds(R, user_id) == {r.book_id : r \in {x \in R : x.user_id = user_id}}

\* a book is never dropped for lack of neighbors
NeverTooFewNeighbors(count) == FALSE

\* line 155: too few neighbors rated the book
TooFewNeighbors(count) == count < min_neighbors_for_rec

\* the ScoredBook with the plain average of the ratings as predicted rating
ScoreBookUnweighted(book_id, entries) ==
    LET count == Cardinality(entries)
        total_weight == SumOver(entries, [t \in entries |-> t[2]])
        rating_sum == SumOver(entries, [t \in entries |-> t[3]])
    IN [book_id |-> book_id,
        weighted_sum |-> rating_sum,
        total_weight |-> count,
        confidence |-> (Min(count * 100, Scale) * Min(total_weight \div 2, Scale)) \div Scale,
        contributing_neighbors |-> entries,
        neighbor_count |-> count,
        rating_sum |-> rating_sum]

\* the ScoredBook of one book from its (user_id, sim, rating) entries;
\* predicted_rating is kept as the exact quotient weighted_sum / total_weight
ScoreBook(book_id, entries) ==
    LET count == Cardinality(entries)
        total_weight == SumOver(entries, [t \in entries |-> t[2]])
        weighted_sum == SumOver(entries, [t \in entries |-> t[2] * t[3]])
        rating_sum == SumOver(entries, [t \in entries |-> t[3]])
    IN [book_id |-> book_id,
        weighted_sum |-> IF total_weight > 0 THEN weighted_sum ELSE 0,
        total_weight |-> IF total_weight > 0 THEN total_weight ELSE 1,
        confidence |-> (Min(count * 100, Scale) * Min(total_weight \div 2, Scale)) \div Scale,
        contributing_neighbors |-> entries,
        neighbor_count |-> count,
        rating_sum |-> rating_sum]

\* key of scored.sort(key=predicted_rating, reverse=True): a is strictly
\* better than b
BetterPredicted(a, b) ==
    a.weighted_sum * b.total_weight > b.weighted_sum * a.total_weight

\* list.sort is stable: equal keys keep the order of the list
RECURSIVE InsertScored(_, _)
InsertScored(sorted, x) ==
    IF sorted = <<>> THEN <<x>>
    ELSE IF BetterPredicted(x, Head(sorted))
         THEN <<x>> \o sorted
         ELSE <<Head(sorted)>> \o InsertScored(Tail(sorted), x)

RECURSIVE SortScored(_)
SortScored(s) ==
    IF s = <<>> THEN <<>>
    ELSE InsertScored(SortScored(SubSeq(s, 1, Len(s) - 1)), s[Len(s)])

\* _score_candidate_books
ScoreCandidateBooks(R, neighbors, exclude_book_ids, ties) ==
    LET neighbor_ids == {neighbors[i].neighbor_id : i \in DOMAIN neighbors}
        neighbor_sim == [n \in neighbor_ids |->
                            (CHOOSE e \in Range(neighbors) : e.neighbor_id = n).adjusted_similarity]
        neighbor_ratings == {r \in R : /\ r.user_id \in neighbor_ids
                                       /\ r.rating > 0
                                       /\ Catalog(r.book_id).is_romantasy
                                       /\ (exclude_book_ids = {} \/ r.book_id \notin exclude_book_ids)}
        entries(b) == {<<r.user_id, neighbor_sim[r.user_id], r.rating>> :
                          r \in {x \in neighbor_ratings : /\ x.book_id = b
                                                          /\ neighbor_sim[x.user_id] > 0}}
        book_ids == IdsInOrder({r.book_id : r \in {x \in neighbor_ratings :
                                                      neighbor_sim[x.user_id] > 0}}, ties)
        kept == SelectSeq(book_ids, LAMBDA b : ~TooFewNeighbors(Cardinality(entries(b))))
    IN SortScored([i \in DOMAIN kept |-> ScoreBook(kept[i], entries(kept[i]))])

\* any(t.lower() in book_tags for t in tropes)
AnyTrope(tropes, book_tags) == \E t \in tropes : Lower(t) \in book_tags

\* _apply_filters with the range tests applied to known spice levels only
PassesFiltersUnknownSpice(book, filters) ==
    /\ filters.spice_min # None
          => (book.spice_level = None \/ book.spice_level[1] >= filters.spice_min[1])
    /\ filters.spice_max # None
          => (book.spice_level = None \/ book.spice_level[1] <= filters.spice_max[1])
    /\ filters.is_ya # None => book.is_ya = filters.is_ya
    /\ filters.exclude_why_choose = Some(TRUE)
          => ~(book.is_why_choose /\ book.why_choose_confidence >= 500)
    /\ (filters.include_tropes # None /\ filters.include_tropes[1] # {})
          => AnyTrope(filters.include_tropes[1], book.tags)
    /\ (filters.exclude_tropes # None /\ filters.exclude_tropes[1] # {})
          => ~AnyTrope(filters.exclude_tropes[1], book.tags)

\* _apply_filters: whether one scored book is kept
PassesFilters(book, filters) ==
    /\ filters.spice_min # None
          => (book.spice_level # None /\ book.spice_level[1] >= filters.spice_min[1])
    /\ filters.spice_max # None
          => (book.spice_level # None /\ book.spice_level[1] <= filters.spice_max[1])
    /\ filters.is_ya # None => book.is_ya = filters.is_ya
    /\ filters.exclude_why_choose = Some(TRUE)
          => ~(book.is_why_choose /\ book.why_choose_confidence >= 500)
    /\ (filters.include_tropes # None /\ filters.include_tropes[1] # {})
          => AnyTrope(filters.include_tropes[1], book.tags)
    /\ (filters.exclude_tropes # None /\ filters.exclude_tropes[1] # {})
          => ~AnyTrope(filters.exclude_tropes[1], book.tags)

ApplyFilters(books, filters) ==
    SelectSeq(books, LAMBDA scored : PassesFilters(Catalog(scored.book_id), filters))

\* the cap of the author raised by one
AuthorLimitExceeded(count) == count > diversity_author_limit

\* line 241: the author already has diversity_author_limit books
AuthorLimitReached(count) == count >= diversity_author_limit

\* _apply_diversity: one pass, counting the kept books per lower-cased author
RECURSIVE ApplyDiversityFrom(_, _, _)
ApplyDiversityFrom(books, i, diverse) ==
    IF i > Len(books) THEN diverse
    ELSE LET author == Lower(Catalog(books[i].book_id).author)
             count == Cardinality({j \in DOMAIN diverse :
                          Lower(Catalog(diverse[j].book_id).author) = author})
         IN IF AuthorLimitReached(count)
            THEN ApplyDiversityFrom(books, i + 1, diverse)
            ELSE ApplyDiversityFrom(books, i + 1, Append(diverse, books[i]))

ApplyDiversity(books) == ApplyDiversityFrom(books, 1, <<>>)

\* books[:limit]
SliceFromStart(s, offset, limit) == SubSeq(s, 1, Min(Len(s), limit))

\* books[offset : offset + limit]
Slice(s, offset, limit) ==
    IF offset >= Len(s) THEN <<>> ELSE SubSeq(s, offset + 1, Min(Len(s), offset + limit))

\* round(x, 2) of the quotient n / d, in hundredths
RoundHundredths(n, d) == (2 * 100 * n + d) \div (2 * d)

\* _to_response: the fields of the response that carry the recommendation
ToResponse(scored) ==
    [book_id |-> scored.book_id,
     author |-> Catalog(scored.book_id).author,
     predicted_rating |-> RoundHundredths(scored.weighted_sum, scored.total_weight),
     confidence |-> RoundHundredths(scored.confidence, Scale),
     similar_user_count |-> scored.neighbor_count,
     average_neighbor_rating |-> RoundHundredths(scored.rating_sum, scored.neighbor_count)]

\* ORDER BY romantasy_confidence DESC, publication_year DESC: book a comes
\* before book b
YearRank(book, nulls) ==
    IF book.publication_year = None
    THEN (IF nulls = "first" THEN 10000 ELSE 0)
    ELSE book.publication_year[1]

\* the same ordering with the confidence ascending
PopularBeforeAscending(a, b, order) ==
    LET ba == Catalog(a)
        bb == Catalog(b)
    IN \/ ba.romantasy_confidence < bb.romantasy_confidence
       \/ /\ ba.romantasy_confidence = bb.romantasy_confidence
          /\ YearRank(ba, order.nulls) > YearRank(bb, order.nulls)
       \/ /\ ba.romantasy_confidence = bb.romantasy_confidence
          /\ YearRank(ba, order.nulls) = YearRank(bb, order.nulls)
          /\ (IF order.ties = "asc" THEN a < b ELSE a > b)

PopularBefore(a, b, order) ==
    LET ba == Catalog(a)
        bb == Catalog(b)
    IN \/ ba.romantasy_confidence > bb.romantasy_confidence
       \/ /\ ba.romantasy_confidence = bb.romantasy_confidence
          /\ YearRank(ba, order.nulls) > YearRank(bb, order.nulls)
       \/ /\ ba.romantasy_confidence = bb.romantasy_confidence
          /\ YearRank(ba, order.nulls) = YearRank(bb, order.nulls)
          /\ (IF order.ties = "asc" THEN a < b ELSE a > b)

RECURSIVE PopularOrder(_, _)
PopularOrder(S, order) ==
    IF S = {} THEN <<>>
    ELSE LET first == CHOOSE a \in S : \A b \in S \ {a} : PopularBefore(a, b, order)
         IN <<first>> \o PopularOrder(S \ {first}, order)

\* the WHERE clause with NULL is_ya rows let through
PopularMatchesUnknownYa(book_id, read_book_ids, filters) ==
    LET book == Catalog(book_id)
    IN /\ book.is_romantasy
       /\ (read_book_ids = {} \/ book_id \notin read_book_ids)
       /\ filters.spice_min # None
             => (book.spice_level # None /\ book.spice_level[1] >= filters.spice_min[1])
       /\ filters.spice_max # None
             => (book.spice_level # None /\ book.spice_level[1] <= filters.spice_max[1])
       /\ filters.is_ya # None => (book.is_ya = None \/ book.is_ya = filters.is_ya)
       /\ filters.exclude_why_choose = Some(TRUE) => book.why_choose_confidence < 500

\* the WHERE clause of _get_popular_recommendations.  Line 345 passes
\* Python's `not Book.is_why_choose` (False for a mapped attribute) to
\* or_, which leaves why_choose_confidence < 0.5 as the condition.
PopularMatches(book_id, read_book_ids, filters) ==
    LET book == Catalog(book_id)
    IN /\ book.is_romantasy
       /\ (read_book_ids = {} \/ book_id \notin read_book_ids)
       /\ filters.spice_min # None
             => (book.spice_level # None /\ book.spice_level[1] >= filters.spice_min[1])
       /\ filters.spice_max # None
             => (book.spice_level # None /\ book.spice_level[1] <= filters.spice_max[1])
       /\ filters.is_ya # None => book.is_ya = filters.is_ya
       /\ filters.exclude_why_choose = Some(TRUE) => book.why_choose_confidence < 500

PopularResponse(book_id) ==
    [book_id |-> book_id,
     author |-> Catalog(book_id).author,
     predicted_rating |-> 0,
     confidence |-> 0,
     similar_user_count |-> 0,
     average_neighbor_rating |-> 0]

\* _get_popular_recommendations
GetPopularRecommendations(R, user_id, filters, limit, offset, order) ==
    LET read_book_ids == ReadBookIds(R, user_id)
        books == Slice(PopularOrder({b \in Books : PopularMatches(b, read_book_ids, filters)},
                                    order), offset, limit)
    IN [i \in DOMAIN books |-> PopularResponse(books[i])]

\* the list after _apply_filters and _apply_diversity, before pagination
DiverseBooks(R, E, user_id, filters, order) ==
    ApplyDiversity(ApplyFilters(
        ScoreCandidateBooks(R, GetNeighbors(E, user_id, order.ties),
                            ReadBookIds(R, user_id), order.ties), filters))

\* RecommendationEngine.get_recommendations: the list returned and the
\* return statement that produced it
EngineGetRecommendations(R, E, user_id, filters, limit, offset, order) ==
    LET neighbors == GetNeighbors(E, user_id, order.ties)
        scored_books == ScoreCandidateBooks(R, neighbors, ReadBookIds(R, user_id), order.ties)
        filtered_books == ApplyFilters(scored_books, filters)
        diverse_books == ApplyDiversity(filtered_books)
        paginated == Slice(diverse_books, offset, limit)
    IN IF neighbors = <<>> \/ scored_books = <<>>
       THEN [path |-> "popular",
             items |-> GetPopularRecommendations(R, user_id, filters, limit, offset, order),
             filtered_books |-> <<>>, diverse_books |-> <<>>]
       ELSE [path |-> "personalised",
             items |-> [i \in DOMAIN paginated |-> ToResponse(paginated[i])],
             filtered_books |-> filtered_books, diverse_books |-> diverse_books]

\* get_recommendations(db, user_id, filters, limit, offset)
GetRecommendations(u, filters, limit, offset, order) ==
    LET out == EngineGetRecommendations(ratings, edges, u, filters, limit, offset, order)
    IN /\ recs' = out @@ [called |-> TRUE, user |-> u, filters |-> filters, limit |-> limit,
                          offset |-> offset]
       /\ last' = LastOp("get_recommendations", u, <<>>, <<>>, ZeroStats, FALSE)
       /\ UNCHANGED <<ratings, allow, edges, single, batch>>

\* ------------------------------------------------------------------------
\* The recommendation machine: similarity runs, feedback and
\* recommendation requests applied one after the other
\* ------------------------------------------------------------------------
\* everyone rated the shared books 1 and 2 alike; the Kane books 3..6 and
\* book 8 are rated by both neighbors of user 1
RecScenarioA ==
    {Row(1, 1, 5), Row(1, 2, 3),
     Row(2, 1, 4), Row(2, 2, 2), Row(2, 3, 5), Row(2, 4, 4), Row(2, 5, 5), Row(2, 6, 4),
     Row(2, 7, 5), Row(2, 8, 3),
     Row(3, 1, 5), Row(3, 2, 2), Row(3, 3, 4), Row(3, 4, 5), Row(3, 5, 3), Row(3, 6, 4),
     Row(3, 8, 4)}

\* books 6 and 8 are rated by one neighbor of user 1 only
RecScenarioB ==
    {Row(1, 1, 5), Row(1, 2, 3), Row(1, 7, 4),
     Row(2, 1, 4), Row(2, 2, 2), Row(2, 3, 5), Row(2, 4, 4), Row(2, 8, 5),
     Row(3, 1, 5), Row(3, 2, 2), Row(3, 3, 4), Row(3, 4, 2), Row(3, 6, 4)}

\* user 2 disagrees with user 1; user 3 has not rated anything
RecScenarioC ==
    {Row(1, 1, 5), Row(1, 2, 3),
     Row(2, 1, 2), Row(2, 2, 4), Row(2, 3, 5), Row(2, 4, 5)}

RecScenarios == {RecScenarioA, RecScenarioB, RecScenarioC}

InitRec ==
    /\ ratings \in RecScenarios
    /\ allow = [u \in Users |-> TRUE]
    /\ edges = {}
    /\ last = InitLast
    /\ recs = NoRecs
    /\ single = IdleSingle
    /\ batch = IdleBatch
    /\ ops = 0

RecTick == ops < MaxRecOps /\ ops' = ops + 1

RecCompute(u) == RecTick /\ ComputeUserSimilarity(u)

RecComputeAll == RecTick /\ ComputeAll

RecFeedback(u, b, feedback) == RecTick /\ RecordFeedback(u, b, feedback)

RecGet(u, filters, limit, offset, order) ==
    RecTick /\ GetRecommendations(u, filters, limit, offset, order)

\* the users that call the service: the scenarios give users 1..3 their
\* ratings, and user 3 of scenario C is the caller without any row
RecCallers == {1, 2, 3}

NextRec ==
    \/ \E u \in RecCallers : RecCompute(u)
    \/ RecComputeAll
    \/ \E u \in RecCallers, b \in FeedbackBooks, feedback \in Feedbacks : RecFeedback(u, b, feedback)
    \/ \E u \in RecCallers, filters \in FilterPresets, page \in Pages, order \in QueryOrders :
          RecGet(u, filters, page[1], page[2], order)

SpecRec == InitRec /\ [][NextRec]_vars

\* ------------------------------------------------------------------------
\* Properties of the recommendation machine
\* ------------------------------------------------------------------------
\* the state right after a get_recommendations call: recs holds its result
\* for the ratings and edges of this state
JustRecommended == last.op = "get_recommendations" /\ recs.called

RecommendedBooks == {recs.items[i].book_id : i \in DOMAIN recs.items}

HasPositiveEdge(E, u) == \E e \in E : e.user_id = u /\ e.adjusted_similarity > 0

\* neighbors of u with a stored positive similarity and a positive rating of b
Backers(R, E, u, b) ==
    {n \in Users : /\ \E e \in E : /\ e.user_id = u
                                  /\ e.neighbor_id = n
                                  /\ e.adjusted_similarity > 0
                   /\ \E r \in R : r.user_id = n /\ r.book_id = b /\ r.rating > 0}

\* C4: a book the user has a rating row for, of any value, is in no list
\* get_recommendations returns for that user, on either path; record_feedback
\* 'already_read' leaves such a row behind, and rating rows are never
\* removed, so the book stays out of every later result.
C4_ReadBooksNeverRecommended ==
    /\ [](JustRecommended =>
             \A b \in RecommendedBooks : ~HasRow(ratings, recs.user, b))
    /\ [][(last'.op = "record_feedback" /\ last'.feedback = "already_read")
             => HasRow(ratings', last'.user, last'.book)]_vars
    /\ [][\A r \in ratings : HasRow(ratings', r.user_id, r.book_id)]_vars

\* a personalised list for a user whose sentinel row keeps out a book that
\* the same call would return without the row
C4_Witness ==
    /\ JustRecommended
    /\ recs.path = "personalised"
    /\ recs.items # <<>>
    /\ \E r \in ratings :
          /\ r.user_id = recs.user
          /\ r.rating = 0
          /\ \E order \in QueryOrders :
                LET without == EngineGetRecommendations(ratings \ {r}, edges, recs.user,
                                   recs.filters, recs.limit, recs.offset, order).items
                IN \E i \in DOMAIN without : without[i].book_id = r.book_id

\* C7 as stated: a user without a positive-similarity edge gets a non-empty
\* list, ordered by confidence then year, with predicted_rating and
\* confidence 0, whenever the catalog has a Romantasy book.
C7_ColdStartNonEmpty ==
    (/\ JustRecommended
     /\ ~HasPositiveEdge(edges, recs.user)
     /\ \E b \in Books : Catalog(b).is_romantasy)
    => /\ recs.items # <<>>
       /\ \A i \in DOMAIN recs.items :
             recs.items[i].predicted_rating = 0 /\ recs.items[i].confidence = 0

\* the WHERE clause of the fallback, restated on the book's columns
ColdStartEligible(b) ==
    LET book == Catalog(b)
        f == recs.filters
    IN /\ book.is_romantasy
       /\ ~HasRow(ratings, recs.user, b)
       /\ f.spice_min # None
             => (book.spice_level # None /\ book.spice_level[1] >= f.spice_min[1])
       /\ f.spice_max # None
             => (book.spice_level # None /\ book.spice_level[1] <= f.spice_max[1])
       /\ f.is_ya # None => book.is_ya = f.is_ya
       /\ f.exclude_why_choose = Some(TRUE) => book.why_choose_confidence < 500

\* C7 amended: a user without a positive-similarity edge gets the page
\* [offset, offset + limit) of the Romantasy books it has no rating row for
\* and that pass the spice, YA and why-choose filters, ordered by confidence
\* descending then publication year descending; every item has
\* predicted_rating = confidence = 0.  The list is non-empty exactly when
\* more than offset such books exist.
C7_ColdStartFallback ==
    (JustRecommended /\ ~HasPositiveEdge(edges, recs.user))
    => LET eligible == {b \in Books : ColdStartEligible(b)}
           rest == Cardinality(eligible) - recs.offset
       IN /\ recs.path = "popular"
          /\ RecommendedBooks \subseteq eligible
          /\ Cardinality(RecommendedBooks) = Len(recs.items)
          /\ Len(recs.items) = (IF rest <= 0 THEN 0 ELSE Min(recs.limit, rest))
          /\ \A i \in DOMAIN recs.items :
                recs.items[i].predicted_rating = 0 /\ recs.items[i].confidence = 0
          /\ \A i \in DOMAIN recs.items, j \in DOMAIN recs.items :
                i < j =>
                   LET bi == Catalog(recs.items[i].book_id)
                       bj == Catalog(recs.items[j].book_id)
                   IN \/ bi.romantasy_confidence > bj.romantasy_confidence
                      \/ /\ bi.romantasy_confidence = bj.romantasy_confidence
                         /\ (bi.publication_year # None /\ bj.publication_year # None)
                               => bi.publication_year[1] >= bj.publication_year[1]

\* a cold-start list of several books for a user whose only stored edge is
\* negative and who has rated a Romantasy book
C7_Witness ==
    /\ JustRecommended
    /\ ~HasPositiveEdge(edges, recs.user)
    /\ EdgesOf(edges, recs.user) # {}
    /\ Len(recs.items) >= 3
    /\ \E b \in ReadBookIds(ratings, recs.user) : Catalog(b).is_romantasy

\* C8: when the user has positive-similarity edges and nothing is left after
\* the filters and the diversity cap, get_recommendations returns the
\* cold-start fallback's result.
C8_FallbackWhenFilteredEmpty ==
    (/\ JustRecommended
     /\ HasPositiveEdge(edges, recs.user)
     /\ \A order \in QueryOrders :
           DiverseBooks(ratings, edges, recs.user, recs.filters, order) = <<>>)
    => /\ recs.path = "popular"
       /\ \E order \in QueryOrders :
             recs.items = GetPopularRecommendations(ratings, recs.user, recs.filters,
                                                    recs.limit, recs.offset, order)

\* C9: every item of a personalised list is backed by at least
\* min_neighbors_for_rec distinct neighbors that have a stored
\* adjusted_similarity > 0 to the user and rated the book > 0.
C9_BackedByNeighbors ==
    (JustRecommended /\ recs.path = "personalised")
    => \A i \in DOMAIN recs.items :
          /\ Cardinality(Backers(ratings, edges, recs.user, recs.items[i].book_id))
                >= min_neighbors_for_rec
          /\ recs.items[i].similar_user_count
                = Cardinality(Backers(ratings, edges, recs.user, recs.items[i].book_id))

\* a personalised list returned while an unread Romantasy book rated by a
\* single positive neighbor is left out
C9_Witness ==
    /\ JustRecommended
    /\ recs.path = "personalised"
    /\ recs.items # <<>>
    /\ recs.filters = FilterNone
    /\ recs.offset = 0
    /\ \E b \in Books :
          /\ Catalog(b).is_romantasy
          /\ ~HasRow(ratings, recs.user, b)
          /\ Cardinality(Backers(ratings, edges, recs.user, b)) = 1
          /\ b \notin RecommendedBooks

\* C10: in every list get_recommendations returns, no author, compared
\* case-insensitively, has more than diversity_author_limit books.
C10_AuthorCap ==
    JustRecommended
    => \A i \in DOMAIN recs.items :
          Cardinality({j \in DOMAIN recs.items :
                          Lower(recs.items[j].author) = Lower(recs.items[i].author)})
             <= diversity_author_limit

\* a tag of the book equals the trope when both are lower-cased
MatchesTrope(book, tropes) ==
    \E tag \in book.tags, t \in tropes : Lower(tag) = Lower(t)

\* C16: every book get_recommendations returns respects the trope filters:
\* with a non-empty include_tropes it has a tag that matches one of them
\* case-insensitively, with a non-empty exclude_tropes it has no tag that
\* matches one of them.
C16_TropeFilters ==
    JustRecommended
    => \A b \in RecommendedBooks :
          /\ (recs.filters.include_tropes # None /\ recs.filters.include_tropes[1] # {})
                => MatchesTrope(Catalog(b), recs.filters.include_tropes[1])
          /\ (recs.filters.exclude_tropes # None /\ recs.filters.exclude_tropes[1] # {})
                => ~MatchesTrope(Catalog(b), recs.filters.exclude_tropes[1])

\* C17: under spice_min and/or spice_max every returned book has a known
\* spice_level within the bounds that are set; a book of unknown
\* spice_level is never returned.
C17_SpiceRange ==
    (JustRecommended /\ (recs.filters.spice_min # None \/ recs.filters.spice_max # None))
    => \A b \in RecommendedBooks :
          /\ Catalog(b).spice_level # None
          /\ recs.filters.spice_min # None
                => Catalog(b).spice_level[1] >= recs.filters.spice_min[1]
          /\ recs.filters.spice_max # None
                => Catalog(b).spice_level[1] <= recs.filters.spice_max[1]

\* a personalised list under a spice range alone, while the neighbors back
\* a book of unknown spice_level and a book outside the range, both of
\* which the same call returns when no filter is set
C17_Witness ==
    /\ JustRecommended
    /\ recs.path = "personalised"
    /\ recs.filters = FilterSpiceRange
    /\ recs.items # <<>>
    /\ \E order \in QueryOrders :
          LET unfiltered == DiverseBooks(ratings, edges, recs.user, FilterNone, order)
              ids == {unfiltered[i].book_id : i \in DOMAIN unfiltered}
          IN /\ \E b \in ids : Catalog(b).spice_level = None
             /\ \E b \in ids : /\ Catalog(b).spice_level # None
                                /\ Catalog(b).spice_level[1] > FilterSpiceRange.spice_max[1]

\* C18: under an is_ya filter every returned book has is_ya equal to the
\* filter value; a book whose is_ya is unknown is never returned.
C18_YaFilter ==
    (JustRecommended /\ recs.filters.is_ya # None)
    => \A b \in RecommendedBooks :
          /\ Catalog(b).is_ya # None
          /\ Catalog(b).is_ya = recs.filters.is_ya

\* a cold-start list under the YA flag alone, while the catalog holds
\* unread Romantasy books with the other value and with an unknown value
C18_Witness ==
    /\ JustRecommended
    /\ recs.path = "popular"
    /\ recs.filters = FilterAdult
    /\ recs.items # <<>>
    /\ \E b \in Books : /\ Catalog(b).is_romantasy
                         /\ ~HasRow(ratings, recs.user, b)
                         /\ Catalog(b).is_ya = None
    /\ \E b \in Books : /\ Catalog(b).is_romantasy
                         /\ ~HasRow(ratings, recs.user, b)
                         /\ Catalog(b).is_ya = Some(TRUE)

\* ------------------------------------------------------------------------
\* Concurrent writers: a compute_user_similarity call (onboarding, inline)
\* and a compute_all job (admin background task), each in a session of its
\* own (SessionLocal, autoflush off) on a READ COMMITTED database.  edges is
\* the committed table.  A DELETE runs when query.delete() is called and
\* holds its rows locked until the session ends; the added rows are flushed
\* by commit(), which checks the unique constraint.
\* ------------------------------------------------------------------------
\* rows of the user a DELETE statement issued now sees
DeleteSnapshot(E, user_id) == E \ DeleteForUser(E, user_id)

\* the statement waits while another session holds one of its rows
DeleteBlocked(snap, other_deleted) == snap \cap other_deleted # {}

\* commit(): the deletes take effect and the pending rows are inserted, or
\* the INSERT hits the unique constraint and the session is rolled back
CommitSession(E, deleted, pending) ==
    LET kept == E \ deleted
    IN IF ViolatesUnique(kept, pending)
       THEN [edges |-> E, error |-> TRUE]
       ELSE [edges |-> kept \cup pending, error |-> FALSE]

ConcTick == ops < MaxConcOps /\ ops' = ops + 1

\* compute_user_similarity(db, u) is called: compute_for_user reads the
\* committed ratings; save_similarities returns 0 at once for an empty list
SingleStart(u) ==
    /\ ConcTick
    /\ single.pc \in {"idle", "done", "failed"}
    /\ LET results == ComputeForUser(ratings, allow, u)
       IN single' = [IdleSingle EXCEPT !.pc = IF results = <<>> THEN "done" ELSE "computed",
                                       !.user = u, !.results = results]
    /\ UNCHANGED <<ratings, allow, edges, last, recs, batch>>

\* save_similarities, line 208
SingleDelete ==
    /\ single.pc = "computed"
    /\ LET snap == DeleteSnapshot(edges, single.user)
       IN single' = IF DeleteBlocked(snap, batch.deleted)
                    THEN [single EXCEPT !.pc = "blocked", !.snap = snap]
                    ELSE [single EXCEPT !.pc = "deleted", !.deleted = snap]
    /\ UNCHANGED <<ratings, allow, edges, last, recs, batch, ops>>

\* the lock holder has ended: the DELETE removes the rows of its snapshot
\* that still exist
SingleResume ==
    /\ single.pc = "blocked"
    /\ ~DeleteBlocked(single.snap, batch.deleted)
    /\ single' = [single EXCEPT !.pc = "deleted", !.deleted = single.snap \cap edges,
                                !.snap = {}]
    /\ UNCHANGED <<ratings, allow, edges, last, recs, batch, ops>>

\* save_similarities, lines 211-221: add the rows and commit
SingleCommit ==
    /\ single.pc = "deleted"
    /\ LET out == CommitSession(edges, single.deleted, Range(single.results))
       IN /\ edges' = out.edges
          /\ single' = [single EXCEPT !.pc = IF out.error THEN "failed" ELSE "done",
                                      !.deleted = {}]
    /\ UNCHANGED <<ratings, allow, last, recs, batch, ops>>

\* compute_all is called: eligible users, matrix and similarities are
\* computed from the committed ratings; without users it returns at once
BatchStart ==
    /\ ConcTick
    /\ batch.pc \in {"idle", "done", "failed", "aborted"}
    /\ LET user_ids == EligibleUsers(ratings, allow)
       IN batch' = [IdleBatch EXCEPT !.pc = IF user_ids = <<>> THEN "done" ELSE "running",
                                     !.lists = BatchLists(ratings, allow),
                                     !.todo = user_ids]
    /\ UNCHANGED <<ratings, allow, edges, last, recs, single>>

\* _save_user_similarities once its DELETE has removed the rows in gone
BatchSaved(b, user_id, gone) ==
    [b EXCEPT !.pc = "running",
              !.todo = Tail(b.todo),
              !.written = Append(b.written, user_id),
              !.snap = {},
              !.deleted = b.deleted \cup gone,
              !.pending = b.pending \cup Range(b.lists[user_id]),
              !.stats = [b.stats EXCEPT
                            !.users_processed = @ + 1,
                            !.similarities_computed = @ + Len(b.lists[user_id])]]

\* one turn of the loop of compute_all, lines 277-290
BatchUser ==
    /\ batch.pc = "running"
    /\ batch.todo # <<>>
    /\ LET user_id == Head(batch.todo)
           snap == DeleteSnapshot(edges, user_id)
       IN batch' = IF batch.lists[user_id] = <<>>
                   THEN [batch EXCEPT !.todo = Tail(batch.todo),
                                      !.stats = [batch.stats EXCEPT !.users_skipped = @ + 1]]
                   ELSE IF DeleteBlocked(snap, single.deleted)
                        THEN [batch EXCEPT !.pc = "blocked", !.snap = snap]
                        ELSE BatchSaved(batch, user_id, snap)
    /\ UNCHANGED <<ratings, allow, edges, last, recs, single, ops>>

BatchResume ==
    /\ batch.pc = "blocked"
    /\ ~DeleteBlocked(batch.snap, single.deleted)
    /\ batch' = BatchSaved(batch, Head(batch.todo), batch.snap \cap edges)
    /\ UNCHANGED <<ratings, allow, edges, last, recs, single, ops>>

\* compute_all, line 292: the only commit of the job
BatchCommit ==
    /\ batch.pc = "running"
    /\ batch.todo = <<>>
    /\ LET out == CommitSession(edges, batch.deleted, batch.pending)
       IN /\ edges' = out.edges
          /\ batch' = [batch EXCEPT !.pc = IF out.error THEN "failed" ELSE "done",
                                    !.deleted = {}, !.pending = {}]
    /\ UNCHANGED <<ratings, allow, last, recs, single, ops>>

\* the job fails or is cancelled inside the loop (a statement raises, the
\* worker is stopped): nothing was committed, the session is rolled back
BatchAbort ==
    /\ batch.pc \in {"running", "blocked"}
    /\ batch.todo # <<>>
    /\ batch' = [batch EXCEPT !.pc = "aborted", !.snap = {}, !.deleted = {}, !.pending = {}]
    /\ UNCHANGED <<ratings, allow, edges, last, recs, single, ops>>

NextConc ==
    \/ \E u \in Users : SingleStart(u)
    \/ SingleDelete
    \/ SingleResume
    \/ SingleCommit
    \/ BatchStart
    \/ BatchUser
    \/ BatchResume
    \/ BatchCommit
    \/ BatchAbort

SpecConc == Init /\ [][NextConc]_vars

\* ------------------------------------------------------------------------
\* Properties of the concurrent writers
\* ------------------------------------------------------------------------
\* C5: however a compute_user_similarity(u) call and a compute_all job that
\* both write user u interleave, neither fails on the unique constraint,
\* the table never holds two rows with one (user_id, neighbor_id), and when
\* both have finished the rows of u are the complete list of one of them.
C5_WritersSerialized ==
    /\ single.pc # "failed"
    /\ batch.pc # "failed"
    /\ \A e \in edges, f \in edges : SameKey(e, f) => e = f
    /\ (/\ single.pc = "done" /\ single.results # <<>>
        /\ batch.pc = "done" /\ single.user \in DOMAIN batch.lists
        /\ batch.lists[single.user] # <<>>)
       => \/ EdgesOf(edges, single.user) = Range(single.results)
          \/ EdgesOf(edges, single.user) = Range(batch.lists[single.user])

\* C6: when compute_all fails or is cancelled while it persists a user, the
\* rows of the users whose save it had issued before are in the table.
C6_PriorUsersPersist ==
    [][(batch.pc \in {"running", "blocked"} /\ batch'.pc = "aborted")
       => \A i \in DOMAIN batch.written :
             EdgesOf(edges', batch.written[i]) = Range(batch.lists[batch.written[i]])]_vars

\* ------------------------------------------------------------------------
\* The read-only functions applied to given tables: one call of
\* compute_for_user, or of its loop body on two tables, per table
\* ------------------------------------------------------------------------
\* ratings (book 1, book 2, book 3) a neighbor may have; 0 stands for no row
NeighborVectors == {<<5, 3, 0>>, <<4, 2, 1>>, <<2, 4, 0>>, <<3, 3, 5>>}

NeighborRows(n, v) == {Row(n, b, v[b]) : b \in {c \in 1..3 : v[c] > 0}}

\* rating rows user 1 may have: plain, with a low or high rating outside the
\* shared books, equal ratings on the shared books, a sentinel row, one
\* positive rating only
TargetRows ==
    {{Row(1, 1, 5), Row(1, 2, 3)},
     {Row(1, 1, 5), Row(1, 2, 3), Row(1, 4, 1)},
     {Row(1, 1, 5), Row(1, 2, 5), Row(1, 4, 2)},
     {Row(1, 1, 4), Row(1, 2, 4)},
     {Row(1, 1, 5), Row(1, 2, 3), Row(1, 3, 1)},
     {Row(1, 1, 5), Row(1, 2, 3), Row(1, 3, 0)},
     {Row(1, 1, 5), Row(1, 2, 0)}}

PureTables ==
    {t \cup NeighborRows(2, v2) \cup NeighborRows(3, v3) \cup NeighborRows(4, v4) :
        t \in TargetRows, v2 \in NeighborVectors, v3 \in NeighborVectors,
        v4 \in NeighborVectors}

InitPure ==
    /\ ratings \in PureTables
    /\ allow \in {[u \in Users |-> TRUE], [u \in Users |-> u # 3]}
    /\ edges = {}
    /\ last = InitLast
    /\ recs = NoRecs
    /\ single = IdleSingle
    /\ batch = IdleBatch
    /\ ops = 0

\* SimilarityComputer(db).compute_for_user(u): the list it returns
PureComputeForUser(u) ==
    /\ last.op = "init"
    /\ last' = [op |-> "compute_for_user", user |-> u, error |-> FALSE,
                results |-> ComputeForUser(ratings, allow, u),
                queried |-> CandidatesExamined(ratings, allow, u).queried,
                examined |-> CandidatesExamined(ratings, allow, u).candidates]
    /\ UNCHANGED <<ratings, allow, edges, recs, single, batch, ops>>

\* books and values of a rating the target adds or changes between two calls
OutsideBooks == {4, 5}

OutsideValues == {1, 5}

\* the loop body of compute_for_user for the pair (u, n), on the table and
\* on the table after u has rated book b with v
PureRawSimilarityPair(u, n, b, v) ==
    /\ last.op = "init"
    /\ u # n
    /\ last' = [op |-> "raw_similarity_pair", user |-> u, error |-> FALSE,
                neighbor |-> n, book |-> b,
                before |-> NeighborResult(ratings, u, UserRatings(ratings, u), n),
                after |-> LET changed == UpsertRating(ratings, u, b, v)
                          IN NeighborResult(changed, u, UserRatings(changed, u), n)]
    /\ UNCHANGED <<ratings, allow, edges, recs, single, batch, ops>>

NextPure ==
    \/ \E u \in Users : PureComputeForUser(u)
    \/ \E u \in Users, n \in Users, b \in OutsideBooks, v \in OutsideValues :
          PureRawSimilarityPair(u, n, b, v)

SpecPure == InitPure /\ [][NextPure]_vars

\* ------------------------------------------------------------------------
\* Properties of compute_for_user
\* ------------------------------------------------------------------------
\* the state right after a compute_for_user call
JustComputed == last.op = "compute_for_user"

\* the edges of the candidates of u that pass the overlap and correlation
\* tests of the loop
QualifyingEdges(R, A, u) ==
    LET user_ratings == UserRatings(R, u)
        found == {NeighborResult(R, u, user_ratings, n) :
                     n \in {m \in Users \ {u} : A[m]}}
    IN {f[1] : f \in {g \in found : g # <<>>}}

\* C11: the list compute_for_user returns is sorted by adjusted_similarity
\* non-increasing, holds min(max_neighbors, number of qualifying candidates)
\* of the qualifying candidates, each once, and no candidate left out has
\* a higher adjusted_similarity than one in the list.
C11_TopK ==
    JustComputed
    => LET res == last.results
           qualifying == QualifyingEdges(ratings, allow, last.user)
       IN /\ Len(res) <= max_neighbors
          /\ Len(res) = Min(max_neighbors, Cardinality(qualifying))
          /\ Range(res) \subseteq qualifying
          /\ Cardinality(Range(res)) = Len(res)
          /\ \A i \in DOMAIN res, j \in DOMAIN res :
                i < j => res[i].adjusted_similarity >= res[j].adjusted_similarity
          /\ \A e \in qualifying \ Range(res), i \in DOMAIN res :
                e.adjusted_similarity <= res[i].adjusted_similarity

\* a full list that leaves out a qualifying candidate of strictly lower
\* adjusted_similarity
C11_Witness ==
    /\ JustComputed
    /\ Len(last.results) = max_neighbors
    /\ \E e \in QualifyingEdges(ratings, allow, last.user) \ Range(last.results) :
          e.adjusted_similarity < last.results[max_neighbors].adjusted_similarity

\* the books both users rated > 0, and whether a user's ratings of a set of
\* books are all the same
OverlapOf(R, u, n) == PositiveBooks(R, u) \cap PositiveBooks(R, n)

ConstantOn(R, u, books) ==
    \A a \in books, b \in books : RowOf(R, u, a).rating = RowOf(R, u, b).rating

\* C12: compute_for_user returns no edge to a neighbor when the target's
\* ratings of the overlap are all equal or the neighbor's ratings of the
\* overlap are all equal, and raises no error.
C12_ZeroVarianceSkipped ==
    JustComputed
    => /\ ~last.error
       /\ \A i \in DOMAIN last.results :
             LET overlap == OverlapOf(ratings, last.user, last.results[i].neighbor_id)
             IN /\ ~ConstantOn(ratings, last.user, overlap)
                /\ ~ConstantOn(ratings, last.results[i].neighbor_id, overlap)

\* C13: the raw similarity of a pair depends on the two users' ratings of
\* the overlap only: a rating the target adds or changes on a book outside
\* the overlap leaves it as it was, and two users with the same, not all
\* equal, ratings of the overlap get 1.0.
C13_OverlapOnly ==
    /\ (/\ last.op = "raw_similarity_pair"
        /\ last.book \notin PositiveBooks(ratings, last.neighbor))
       => last.after = last.before
    /\ JustComputed
       => \A i \in DOMAIN last.results :
             LET n == last.results[i].neighbor_id
                 overlap == OverlapOf(ratings, last.user, n)
             IN (/\ \A b \in overlap : RowOf(ratings, last.user, b).rating
                                          = RowOf(ratings, n, b).rating
                 /\ ~ConstantOn(ratings, n, overlap))
                => last.results[i].similarity_score = Scale

\* C15: a user with fewer than min_overlap positive ratings gets the empty
\* list from compute_for_user, without an error, and no candidate is
\* looked up or examined.
C15_TooFewRatingsEmpty ==
    (JustComputed /\ Cardinality(PositiveBooks(ratings, last.user)) < min_overlap)
        => /\ last.results = <<>>
           /\ ~last.error
           /\ ~last.queried
           /\ last.examined = <<>>

\* the user has one positive rating and one sentinel row: two rows, one
\* rating short of min_overlap
C15_Witness ==
    /\ JustComputed
    /\ Cardinality(PositiveBooks(ratings, last.user)) = min_overlap - 1
    /\ Cardinality(ReadBookIds(ratings, last.user)) >= min_overlap
    /\ last.results = <<>>
    /\ ~last.queried

\* ------------------------------------------------------------------------
\* get_recommendation_explanation (services/recommendation_service.py)
\* ------------------------------------------------------------------------
\* users.is_public, per user: user 4 keeps the default (private)
is_public == [u \in Users |-> u # 4]

\* .limit(10) of the neighbors query and .limit(5) of the shared-books query
ExplanationNeighborLimit == 10
SharedBooksLimit == 5

\* lines 447-469: the user's similarity rows joined with the neighbor's
\* rating row of the book and with the neighbor's user row, public
\* neighbors only, by adjusted_similarity descending
ExplanationNeighbors(R, E, user_id, book_id, ties) ==
    LET rows == {e \in E : /\ e.user_id = user_id
                           /\ HasRow(R, e.neighbor_id, book_id)
                           /\ is_public[e.neighbor_id]}
        ids == IdsInOrder({e.neighbor_id : e \in rows}, ties)
        listed == [i \in DOMAIN ids |->
                     LET e == CHOOSE x \in rows : x.neighbor_id = ids[i]
                     IN [neighbor_id |-> e.neighbor_id,
                         adjusted_similarity |-> e.adjusted_similarity,
                         rating |-> RowOf(R, e.neighbor_id, book_id).rating]]
    IN Truncate(SortDesc(listed), ExplanationNeighborLimit)

\* key of order_by(func.count(Rating.id).desc()), kept stable
RECURSIVE InsertShared(_, _)
InsertShared(sorted, x) ==
    IF sorted = <<>> THEN <<x>>
    ELSE IF Head(sorted).shared_by >= x.shared_by
         THEN <<Head(sorted)>> \o InsertShared(Tail(sorted), x)
         ELSE <<x>> \o sorted

RECURSIVE SortShared(_)
SortShared(s) ==
    IF s = <<>> THEN <<>>
    ELSE InsertShared(SortShared(SubSeq(s, 1, Len(s) - 1)), s[Len(s)])

\* lines 475-495: the books the user rated >= 4 that the listed neighbors
\* rated >= 4 too, with the number of such neighbors, most shared first
SharedBooks(R, user_id, neighbor_ids, ties) ==
    IF neighbor_ids = {} THEN <<>>
    ELSE LET user_favorites == {r.book_id : r \in {x \in R : x.user_id = user_id /\ x.rating >= 4}}
             shared == {r \in R : /\ r.user_id \in neighbor_ids
                                  /\ r.rating >= 4
                                  /\ r.book_id \in user_favorites}
             ids == IdsInOrder({r.book_id : r \in shared}, ties)
             listed == [i \in DOMAIN ids |->
                          [book_id |-> ids[i],
                           shared_by |-> Cardinality({r \in shared : r.book_id = ids[i]})]]
         IN Truncate(SortShared(listed), SharedBooksLimit)

\* the dict returned by get_recommendation_explanation; similarity is
\* round(adjusted_similarity, 3), which the thousandths already are, and
\* average_rating is in hundredths
Explanation(R, E, user_id, book_id, ties) ==
    LET neighbors == ExplanationNeighbors(R, E, user_id, book_id, ties)
        neighbor_ids == {neighbors[i].neighbor_id : i \in DOMAIN neighbors}
        rating_sum == SumOver(DOMAIN neighbors, [i \in DOMAIN neighbors |-> neighbors[i].rating])
    IN [book_id |-> book_id,
        similar_users |-> [i \in DOMAIN neighbors |->
                              [username |-> neighbors[i].neighbor_id,
                               similarity |-> neighbors[i].adjusted_similarity,
                               rating |-> neighbors[i].rating]],
        shared_books |-> SharedBooks(R, user_id, neighbor_ids, ties),
        total_neighbors_who_rated |-> Len(neighbors),
        average_rating |-> IF neighbors = <<>> THEN 0
                           ELSE RoundHundredths(rating_sum, Len(neighbors))]

\* get_recommendation_explanation(db, user_id, book_id)
GetRecommendationExplanation(u, b, order) ==
    /\ last' = [op |-> "get_recommendation_explanation", user |-> u, error |-> FALSE,
                book |-> b, ties |-> order.ties,
                explanation |-> Explanation(ratings, edges, u, b, order.ties)]
    /\ UNCHANGED <<ratings, allow, edges, recs, single, batch>>

\* compute_for_user followed by save_similarities on its result
CallComputeForUserSaving(u) ==
    /\ last' = [op |-> "compute_for_user", user |-> u, error |-> FALSE,
                results |-> ComputeForUser(ratings, allow, u),
                queried |-> CandidatesExamined(ratings, allow, u).queried,
                examined |-> CandidatesExamined(ratings, allow, u).candidates]
    /\ edges' = SaveSimilarities(edges, ComputeForUser(ratings, allow, u)).edges
    /\ UNCHANGED <<ratings, allow, recs, single, batch>>

\* SimilarityComputer.compute_for_user called on its own: nothing is saved
CallComputeForUser(u) ==
    /\ last' = [op |-> "compute_for_user", user |-> u, error |-> FALSE,
                results |-> ComputeForUser(ratings, allow, u),
                queried |-> CandidatesExamined(ratings, allow, u).queried,
                examined |-> CandidatesExamined(ratings, allow, u).candidates]
    /\ UNCHANGED <<ratings, allow, edges, recs, single, batch>>

\* ------------------------------------------------------------------------
\* The read operations next to the writers: a batch run fills the
\* similarity table, feedback adds sentinel rows, and the three reads are
\* called on what is stored
\* ------------------------------------------------------------------------
MaxReadOps == 3

\* user 2 marked book 4 as already read (sentinel row); users 2 and 3 both
\* agree with user 1 on books 1 and 2
ReadScenarioA ==
    {Row(1, 1, 5), Row(1, 2, 3),
     Row(2, 1, 4), Row(2, 2, 2), Row(2, 3, 5), Row(2, 4, 0),
     Row(3, 1, 5), Row(3, 2, 2), Row(3, 3, 4), Row(3, 4, 5),
     Row(4, 1, 4), Row(4, 2, 1), Row(4, 3, 0)}

\* users 2 and 3 agree with user 1 on three and on two books, and rate
\* books 4 and 8 differently from each other
ReadScenarioB ==
    {Row(1, 1, 5), Row(1, 2, 3), Row(1, 3, 4),
     Row(2, 1, 5), Row(2, 2, 3), Row(2, 3, 4), Row(2, 4, 5), Row(2, 8, 2),
     Row(3, 1, 4), Row(3, 2, 2), Row(3, 4, 2), Row(3, 8, 5)}

ReadScenarios == {ReadScenarioA, RecScenarioB, ReadScenarioB}

ExplainedBooks == {1, 3, 4}

InitRead ==
    /\ ratings \in ReadScenarios
    /\ allow = [u \in Users |-> TRUE]
    /\ edges = {}
    /\ last = InitLast
    /\ recs = NoRecs
    /\ single = IdleSingle
    /\ batch = IdleBatch
    /\ ops = 0

ReadTick == ops < MaxReadOps /\ ops' = ops + 1

ReadComputeAll == ReadTick /\ ComputeAll

ReadFeedback(u, b, feedback) == ReadTick /\ RecordFeedback(u, b, feedback)

ReadCompute(u) == ReadTick /\ CallComputeForUser(u)

ReadGet(u, filters, limit, offset, order) ==
    ReadTick /\ GetRecommendations(u, filters, limit, offset, order)

ReadExplain(u, b, order) == ReadTick /\ GetRecommendationExplanation(u, b, order)

NextRead ==
    \/ ReadComputeAll
    \/ \E u \in Users, b \in FeedbackBooks : ReadFeedback(u, b, "already_read")
    \/ \E u \in Users : ReadCompute(u)
    \/ \E u \in Users, order \in QueryOrders : ReadGet(u, FilterDefault, 20, 0, order)
    \/ \E u \in Users, b \in ExplainedBooks, order \in QueryOrders : ReadExplain(u, b, order)

SpecRead == InitRead /\ [][NextRead]_vars

\* the rating table without its sentinel rows
PositiveRows(R) == {r \in R : r.rating > 0}

\* the rating table without the sentinel rows of the users other than u
\* (u's own sentinel rows mark books as read, which is not a statistic)
WithoutOthersSentinels(R, u) == {r \in R : r.rating > 0 \/ r.user_id = u}

\* C14: a rating row with value 0 never enters a statistical computation:
\* the list compute_for_user returns, the lists and statistics of the batch
\* run, the items get_recommendations returns (predicted rating, neighbor
\* count, average neighbor rating) and the neighbors, neighbor count and
\* average rating get_recommendation_explanation reports are what they
\* would be with the sentinel rows taken out of the table.
C14_SentinelNeverCounted ==
    /\ last.op = "compute_for_user"
          => last.results = ComputeForUser(PositiveRows(ratings), allow, last.user)
    /\ last.op = "compute_all"
          => /\ last.lists = BatchLists(PositiveRows(ratings), allow)
             /\ edges = ComputeAllResult(PositiveRows(ratings), allow, edges).edges
    /\ JustRecommended
          => \A order \in QueryOrders :
                EngineGetRecommendations(ratings, edges, recs.user, recs.filters,
                                         recs.limit, recs.offset, order)
                = EngineGetRecommendations(WithoutOthersSentinels(ratings, recs.user), edges,
                                           recs.user, recs.filters, recs.limit, recs.offset, order)
    /\ last.op = "get_recommendation_explanation"
          => last.explanation = Explanation(PositiveRows(ratings), edges, last.user,
                                            last.book, last.ties)

\* the rating rows of one (user, book) pair
RowsOf(R, u, b) == {r \in R : r.user_id = u /\ r.book_id = b}

\* C19: record_feedback(u, b, 'already_read') is idempotent: after a call
\* there is exactly one rating row for (u, b); a row that was there before
\* the call is left as it was and none is added; a call that finds no row
\* adds the sentinel row and nothing else; so the second and later calls
\* change nothing.
C19_FeedbackIdempotent ==
    [][(last'.op = "record_feedback" /\ last'.feedback = "already_read")
          => /\ Cardinality(RowsOf(ratings', last'.user, last'.book)) = 1
             /\ HasRow(ratings, last'.user, last'.book) => ratings' = ratings
             /\ ~HasRow(ratings, last'.user, last'.book)
                   => ratings' = ratings \cup {Row(last'.user, last'.book, 0)}
             /\ last'.again => ratings' = ratings
             /\ UNCHANGED <<allow, edges>>]_vars

\* the same call made twice in a row on a pair that had no row: the
\* sentinel row of the first call is the pair's only row
C19_Witness ==
    /\ last.op = "record_feedback"
    /\ last.feedback = "already_read"
    /\ last.again
    /\ RowsOf(ratings, last.user, last.book) = {Row(last.user, last.book, 0)}
    /\ \A init \in ReadScenarios : ~HasRow(init, last.user, last.book)

ReadOperations == {"compute_for_user", "get_recommendations", "get_recommendation_explanation"}

\* C20: compute_for_user, get_recommendations and
\* get_recommendation_explanation leave the stored rows as they are: no
\* rating row, user row or similarity row is created, modified or deleted
\* by them (the book rows are never written by this core); a step that
\* changes the similarity rows is a similarity save, single or batch, and a
\* step that changes the rating rows is record_feedback.
C20_ReadsLeaveStateUnchanged ==
    [][/\ last'.op \in ReadOperations => UNCHANGED <<ratings, allow, edges>>
       /\ edges' # edges => last'.op \in {"compute_user_similarity", "compute_all"}
       /\ ratings' # ratings => last'.op = "record_feedback"
       /\ allow' = allow]_vars

\* an explanation that lists neighbors, read from a table that holds
\* similarity rows written by a batch run and a sentinel row written by
\* record_feedback
C20_Witness ==
    /\ last.op = "get_recommendation_explanation"
    /\ last.explanation.total_neighbors_who_rated >= 2
    /\ edges # {}
    /\ \E init \in ReadScenarios : init \subseteq ratings /\ init # ratings

\* ------------------------------------------------------------------------
\* compute_all with a progress callback (scripts/compute_similarities.py)
\* ------------------------------------------------------------------------
\* bar_length of the script's progress bar
BarLength == 40

\* progress_callback(current, total) of the batch script: what it prints;
\* current / total raises ZeroDivisionError when total is 0
ProgressCallback(current, total) ==
    IF total = 0 THEN [raised |-> TRUE, percent |-> 0, filled |-> 0]
    ELSE [raised |-> FALSE,
          percent |-> (current * 100) \div total,
          filled |-> (BarLength * current) \div total]

\* the loop with the callback called for the users whose list is saved only
RECURSIVE BatchLoopProgressOnSave(_, _, _, _, _, _, _)
BatchLoopProgressOnSave(E, lists, todo, stats, i, total_users, calls) ==
    IF todo = <<>> THEN [edges |-> E, stats |-> stats, calls |-> calls, error |-> FALSE]
    ELSE LET user_id == Head(todo)
             similarities == lists[user_id]
         IN IF similarities # <<>>
            THEN IF ProgressCallback(i + 1, total_users).raised
                 THEN [edges |-> E, stats |-> stats, calls |-> calls, error |-> TRUE]
                 ELSE BatchLoopProgressOnSave(SaveUserSimilarities(E, user_id, similarities),
                         lists, Tail(todo),
                         [stats EXCEPT !.users_processed = @ + 1,
                                       !.similarities_computed = @ + Len(similarities)],
                         i + 1, total_users, Append(calls, <<i + 1, total_users>>))
            ELSE BatchLoopProgressOnSave(E, lists, Tail(todo),
                    [stats EXCEPT !.users_skipped = @ + 1],
                    i + 1, total_users, calls)

\* the loop of compute_all, lines 277-290, with a callback: i is the index
\* of enumerate, calls the (current, total) pairs the callback has received;
\* an exception of the callback leaves the loop
RECURSIVE BatchLoopWithProgress(_, _, _, _, _, _, _)
BatchLoopWithProgress(E, lists, todo, stats, i, total_users, calls) ==
    IF todo = <<>> THEN [edges |-> E, stats |-> stats, calls |-> calls, error |-> FALSE]
    ELSE LET user_id == Head(todo)
             similarities == lists[user_id]
         IN IF ProgressCallback(i + 1, total_users).raised
            THEN [edges |-> E, stats |-> stats, calls |-> calls, error |-> TRUE]
            ELSE IF similarities # <<>>
            THEN BatchLoopWithProgress(SaveUserSimilarities(E, user_id, similarities),
                    lists, Tail(todo),
                    [stats EXCEPT !.users_processed = @ + 1,
                                  !.similarities_computed = @ + Len(similarities)],
                    i + 1, total_users, Append(calls, <<i + 1, total_users>>))
            ELSE BatchLoopWithProgress(E, lists, Tail(todo),
                    [stats EXCEPT !.users_skipped = @ + 1],
                    i + 1, total_users, Append(calls, <<i + 1, total_users>>))

\* BatchSimilarityComputer.compute_all(progress_callback) run alone; when
\* the callback raises nothing is committed and no stats are returned
ComputeAllWithProgress(R, A, E) ==
    LET user_ids == EligibleUsers(R, A)
        total_users == Len(user_ids)
        out == BatchLoopWithProgress(E, BatchLists(R, A), user_ids, ZeroStats, 0,
                                     total_users, <<>>)
    IN IF total_users = 0
       THEN [edges |-> E, stats |-> ZeroStats, calls |-> <<>>, error |-> FALSE]
       ELSE IF out.error
       THEN [edges |-> E, stats |-> ZeroStats, calls |-> out.calls, error |-> TRUE]
       ELSE out

\* compute_all_similarities(db, progress_callback=progress_callback)
ComputeAllProgress ==
    LET out == ComputeAllWithProgress(ratings, allow, edges)
    IN /\ edges' = out.edges
       /\ last' = [calls |-> out.calls, before |-> edges]
                  @@ LastOp("compute_all_progress", 0, <<>>, BatchLists(ratings, allow),
                            out.stats, out.error)
       /\ UNCHANGED <<ratings, allow, recs, single, batch>>

\* raw * (overlap_count / (overlap_count + shrinkage_factor)), lines 103 and
\* 415, as the exact quotient num / den (raw in thousandths)
SignificanceWeight(raw, overlap_count) ==
    [num |-> raw * overlap_count, den |-> overlap_count + shrinkage_factor]

\* ------------------------------------------------------------------------
\* The batch run on drawn tables: compute_all, with and without the
\* script's callback, on a fresh similarity table or after a single-user
\* run, and the significance weighting on drawn arguments
\* ------------------------------------------------------------------------
\* raw similarities (thousandths) and overlap counts the weighting is
\* applied to
RawSamples == {-1000, -500, -1, 0, 1, 500, 866, 1000}
OverlapSamples == {1, 2, 5, 50}

BatchStarts == {"init", "compute_user_similarity"}

BatchSingle(u) == last.op = "init" /\ ComputeUserSimilarity(u) /\ UNCHANGED ops

BatchRun == last.op \in BatchStarts /\ ComputeAll /\ UNCHANGED ops

BatchRunProgress == last.op \in BatchStarts /\ ComputeAllProgress /\ UNCHANGED ops

\* the weighting of lines 103 / 415 for overlap_count and overlap_count + 1
BatchWeighting(raw, overlap_count) ==
    /\ last.op = "init"
    /\ last' = [op |-> "significance_weighting", user |-> 0, error |-> FALSE,
                raw |-> raw, overlap_count |-> overlap_count,
                weight |-> SignificanceWeight(raw, overlap_count),
                weight_next |-> SignificanceWeight(raw, overlap_count + 1),
                adjusted |-> AdjustedSimilarity(raw, overlap_count),
                adjusted_next |-> AdjustedSimilarity(raw, overlap_count + 1)]
    /\ UNCHANGED <<ratings, allow, edges, recs, single, batch, ops>>

NextBatch ==
    \/ \E u \in Users : BatchSingle(u)
    \/ BatchRun
    \/ BatchRunProgress
    \/ \E raw \in RawSamples, overlap_count \in OverlapSamples : BatchWeighting(raw, overlap_count)

SpecBatch == InitPure /\ [][NextBatch]_vars

\* ------------------------------------------------------------------------
\* Properties of the batch run
\* ------------------------------------------------------------------------
\* the users that are opted in and have at least min_overlap positive
\* ratings, read off the tables
OptedInWithRatings ==
    {u \in Users : allow[u] /\ Cardinality(PositiveBooks(ratings, u)) >= min_overlap}

\* C21: compute_all calls progress_callback once per user of its loop, with
\* (i, total) for i = 1..total in increasing order and the same total, the
\* number of eligible users; the callback does not raise, and the stats and
\* the stored edges are those of the run without a callback.
C21_ProgressCallback ==
    last.op = "compute_all_progress"
    => LET total == Cardinality(OptedInWithRatings)
           plain == ComputeAllResult(ratings, allow, last.before)
       IN /\ ~last.error
          /\ last.calls = [i \in 1..total |-> <<i, total>>]
          /\ last.stats = plain.stats
          /\ edges = plain.edges

\* a run with a callback over several eligible users, one of which is
\* skipped for having no neighbor, on a table that already held edges
C21_Witness ==
    /\ last.op = "compute_all_progress"
    /\ Len(last.calls) >= 3
    /\ last.stats.users_skipped >= 1
    /\ last.stats.users_processed >= 2
    /\ last.before # {}

\* ------------------------------------------------------------------------
\* Properties of the scoring step
\* ------------------------------------------------------------------------
\* the stored edges of user u to neighbors that gave book b a positive
\* rating, with adjusted_similarity > 0
ContributingEdges(R, E, u, b) ==
    {e \in E : /\ e.user_id = u
               /\ e.adjusted_similarity > 0
               /\ \E r \in R : r.user_id = e.neighbor_id /\ r.book_id = b /\ r.rating > 0}

\* C22: the predicted_rating of every book of a personalised list is the
\* sum of similarity x rating over the sum of similarity, taken over the
\* contributing neighbors of the book (stored adjusted_similarity > 0,
\* positive rating of the book), to the two decimals of the response.
C22_WeightedAverage ==
    (JustRecommended /\ recs.path = "personalised")
    => \A i \in DOMAIN recs.items :
          LET b == recs.items[i].book_id
              contributing == ContributingEdges(ratings, edges, recs.user, b)
              weighted_sum == SumOver(contributing,
                                 [e \in contributing |->
                                     e.adjusted_similarity * RowOf(ratings, e.neighbor_id, b).rating])
              total_weight == SumOver(contributing,
                                 [e \in contributing |-> e.adjusted_similarity])
          IN /\ total_weight > 0
             /\ 2 * Abs(recs.items[i].predicted_rating * total_weight - 100 * weighted_sum)
                   <= total_weight

\* a recommended book whose contributing neighbors differ both in their
\* similarity and in their rating of the book
C22_Witness ==
    /\ JustRecommended
    /\ recs.path = "personalised"
    /\ \E i \in DOMAIN recs.items :
          \E e \in ContributingEdges(ratings, edges, recs.user, recs.items[i].book_id),
             f \in ContributingEdges(ratings, edges, recs.user, recs.items[i].book_id) :
                /\ e.adjusted_similarity # f.adjusted_similarity
                /\ RowOf(ratings, e.neighbor_id, recs.items[i].book_id).rating
                      # RowOf(ratings, f.neighbor_id, recs.items[i].book_id).rating
                /\ recs.items[i].predicted_rating
                      # recs.items[i].average_neighbor_rating

\* ------------------------------------------------------------------------
\* Properties of the significance weighting
\* ------------------------------------------------------------------------
\* a / b < c / d for quotients [num, den] with positive denominators
QuotientLess(x, y) == x.num * y.den < y.num * x.den

\* every stored edge carries raw x overlap / (overlap + shrinkage) as its
\* adjusted similarity, to the resolution of the column, with the sign of
\* the raw similarity
StoredAsWeighted ==
    \A e \in edges :
       /\ Abs(e.adjusted_similarity * (e.overlap_count + shrinkage_factor)
              - e.similarity_score * e.overlap_count)
             < e.overlap_count + shrinkage_factor
       /\ Sign(e.adjusted_similarity) = Sign(e.similarity_score)

JustWeighted == last.op = "significance_weighting"

\* C23 as stated: the edges of both paths carry raw x overlap / (overlap +
\* shrinkage), and for every fixed raw similarity the adjusted similarity
\* increases with the overlap and stays below the raw similarity.
C23_WeightingIncreasing ==
    /\ StoredAsWeighted
    /\ JustWeighted
          => /\ QuotientLess(last.weight, last.weight_next)
             /\ QuotientLess(last.weight_next, [num |-> last.raw, den |-> 1])

\* C23 amended: the edges of both paths carry raw x overlap / (overlap +
\* shrinkage); for a fixed raw similarity > 0 the adjusted similarity
\* increases with the overlap and stays below the raw similarity, for a
\* fixed raw similarity < 0 (single-user path) it decreases with the
\* overlap and stays above the raw similarity, and for raw similarity 0 it
\* is 0 for every overlap: the magnitude grows towards that of the raw
\* similarity without reaching it, and the sign is kept.
C23_WeightingTowardsRaw ==
    /\ StoredAsWeighted
    /\ JustWeighted
          => LET raw == [num |-> last.raw, den |-> 1]
             IN /\ last.raw > 0 => /\ QuotientLess(last.weight, last.weight_next)
                                   /\ QuotientLess(last.weight_next, raw)
                /\ last.raw < 0 => /\ QuotientLess(last.weight_next, last.weight)
                                   /\ QuotientLess(raw, last.weight_next)
                /\ last.raw = 0 => last.weight.num = 0 /\ last.weight_next.num = 0
                /\ Abs(last.adjusted) <= Abs(last.adjusted_next)
                /\ Abs(last.adjusted_next) <= Abs(last.raw)
                /\ Sign(last.adjusted) = Sign(last.raw)

\* a batch run that wrote an edge of positive raw similarity next to an
\* edge of negative raw similarity left by a single-user run
C23_Witness ==
    /\ last.op \in {"compute_all", "compute_all_progress"}
    /\ \E e \in edges : e.similarity_score < 0 /\ e.adjusted_similarity > e.similarity_score
    /\ \E i \in DOMAIN last.lists : \E j \in DOMAIN last.lists[i] :
          /\ last.lists[i][j] \in edges
          /\ last.lists[i][j].overlap_count >= 3
          /\ last.lists[i][j].adjusted_similarity < last.lists[i][j].similarity_score

\* ------------------------------------------------------------------------
\* Properties of the feedback path
\* ------------------------------------------------------------------------
\* C24: after user u has submitted 'not_interested' for book b, no later
\* get_recommendations(u) returns b; stated for the request that follows
\* the feedback directly.
C24_NotInterestedHidden ==
    [][(/\ last.op = "record_feedback"
        /\ last.feedback = "not_interested"
        /\ last'.op = "get_recommendations"
        /\ recs'.user = last.user)
       => \A i \in DOMAIN recs'.items : recs'.items[i].book_id # last.book]_vars

\* ------------------------------------------------------------------------
\* Properties of the edges a batch run writes
\* ------------------------------------------------------------------------
\* the state right after a compute_all run, with or without callback
JustRanBatch == last.op \in {"compute_all", "compute_all_progress"}

\* the edges the run wrote: the lists it extracted
BatchWritten ==
    UNION {Range(last.lists[u]) : u \in DOMAIN last.lists}

\* C25: every edge compute_all writes connects two distinct users that are
\* both opted in and both have at least min_overlap positive ratings in the
\* tables the run read.
C25_EdgesBetweenEligible ==
    JustRanBatch
    => /\ BatchWritten \subseteq edges
       /\ \A e \in BatchWritten :
             /\ e.user_id # e.neighbor_id
             /\ e.user_id \in OptedInWithRatings
             /\ e.neighbor_id \in OptedInWithRatings

\* a run that wrote edges while one user with enough shared ratings is
\* opted out and another has too few positive ratings
C25_Witness ==
    /\ JustRanBatch
    /\ BatchWritten # {}
    /\ \E u \in Users : /\ ~allow[u]
                        /\ Cardinality(PositiveBooks(ratings, u)) >= min_overlap
                        /\ \E e \in BatchWritten :
                              Cardinality(OverlapOf(ratings, u, e.user_id)) >= min_overlap
    /\ \E u \in Users : /\ allow[u]
                        /\ Cardinality(PositiveBooks(ratings, u)) < min_overlap
                        /\ PositiveBooks(ratings, u) # {}

\* the positive ratings of u are all equal
ConstantRater(R, u) == ConstantOn(R, u, PositiveBooks(R, u))

\* C26: every edge compute_all writes has raw_similarity > 0 and
\* adjusted_similarity > 0, and a user whose positive ratings are all equal
\* gets no edge and is nobody's neighbor in the run.
C26_BatchPositiveOnly ==
    JustRanBatch
    => \A e \in BatchWritten :
          /\ e.similarity_score > 0
          /\ e.adjusted_similarity > 0
          /\ ~ConstantRater(ratings, e.user_id)
          /\ ~ConstantRater(ratings, e.neighbor_id)

\* a run that wrote edges while an eligible user has all its ratings equal
\* and shares min_overlap books with a user that got an edge
C26_Witness ==
    /\ JustRanBatch
    /\ BatchWritten # {}
    /\ \E u \in OptedInWithRatings :
          /\ ConstantRater(ratings, u)
          /\ \E e \in BatchWritten :
                Cardinality(OverlapOf(ratings, u, e.user_id)) >= min_overlap

\* C30: when compute_all completes over a non-empty set of eligible users,
\* users_processed + users_skipped is the number of eligible users,
\* similarities_computed is the number of edges the run wrote,
\* users_skipped is the number of users with an empty neighbor list, and
\* similarities_computed <= max_neighbors x users_processed.
C30_StatsAccountForUsers ==
    (JustRanBatch /\ OptedInWithRatings # {})
    => LET stats == last.stats
           saved == {u \in OptedInWithRatings : \E e \in edges \cap BatchWritten : e.user_id = u}
       IN /\ DOMAIN last.lists = OptedInWithRatings
          /\ stats.users_processed + stats.users_skipped = Cardinality(OptedInWithRatings)
          /\ stats.similarities_computed = Cardinality(BatchWritten)
          /\ stats.similarities_computed
                = Cardinality({e \in edges : e.user_id \in saved})
          /\ stats.users_skipped
                = Cardinality({u \in OptedInWithRatings : last.lists[u] = <<>>})
          /\ stats.users_processed = Cardinality(saved)
          /\ stats.similarities_computed <= max_neighbors * stats.users_processed

\* a run over all the users, each eligible, in which one user is skipped
\* and another gets max_neighbors edges
C30_Witness ==
    /\ JustRanBatch
    /\ Cardinality(OptedInWithRatings) = NUsers
    /\ last.stats.users_skipped >= 1
    /\ last.stats.users_processed >= 2
    /\ \E u \in DOMAIN last.lists : Len(last.lists[u]) = max_neighbors

\* ------------------------------------------------------------------------
\* Properties of the diversity cap and of pagination
\* ------------------------------------------------------------------------
\* the positions of a list of scored books that hold one of the first
\* diversity_author_limit books of their lower-cased author
FirstOfAuthor(books) ==
    {i \in DOMAIN books :
        Cardinality({j \in 1..(i - 1) :
            Lower(Catalog(books[j].book_id).author) = Lower(Catalog(books[i].book_id).author)})
          < diversity_author_limit}

\* C27: _apply_diversity returns the input items that are among the first
\* diversity_author_limit of their lower-cased author, in the order of the
\* input: a subsequence of the input, nothing re-ranked.
C27_StableAuthorCap ==
    (JustRecommended /\ recs.path = "personalised")
    => LET kept == SetToSeqAsc(FirstOfAuthor(recs.filtered_books))
       IN recs.diverse_books = [k \in DOMAIN kept |-> recs.filtered_books[kept[k]]]

\* a filtered list in which the cap drops a book that is followed by a book
\* of another author, and the author of the dropped book appears under
\* several spellings
C27_Witness ==
    /\ JustRecommended
    /\ recs.path = "personalised"
    /\ \E i \in DOMAIN recs.filtered_books :
          /\ i \notin FirstOfAuthor(recs.filtered_books)
          /\ i < Len(recs.filtered_books)
          /\ Len(recs.filtered_books) \in FirstOfAuthor(recs.filtered_books)
          /\ \E j \in 1..(i - 1) :
                LET a == Catalog(recs.filtered_books[i].book_id).author
                    b == Catalog(recs.filtered_books[j].book_id).author
                IN a # b /\ Lower(a) = Lower(b)

\* C28: a personalised list is the contiguous slice [offset, offset +
\* limit) of the diversified list, which is ordered by predicted_rating
\* non-increasing, as is the list returned.
C28_PageOfSortedList ==
    (JustRecommended /\ recs.path = "personalised")
    => LET diverse == recs.diverse_books
           rest == Len(diverse) - recs.offset
       IN /\ \A i \in DOMAIN diverse, j \in DOMAIN diverse :
                i < j => diverse[i].weighted_sum * diverse[j].total_weight
                            >= diverse[j].weighted_sum * diverse[i].total_weight
          /\ Len(recs.items) = (IF rest <= 0 THEN 0 ELSE Min(recs.limit, rest))
          /\ \A i \in DOMAIN recs.items :
                recs.items[i].book_id = diverse[recs.offset + i].book_id
          /\ \A i \in DOMAIN recs.items, j \in DOMAIN recs.items :
                i < j => recs.items[i].predicted_rating >= recs.items[j].predicted_rating

\* a page that starts after the first book and ends before the last one of a
\* diversified list whose predicted ratings are not all equal
C28_Witness ==
    /\ JustRecommended
    /\ recs.path = "personalised"
    /\ recs.offset > 0
    /\ recs.offset + recs.limit < Len(recs.diverse_books)
    /\ Len(recs.items) = recs.limit
    /\ recs.items[1].predicted_rating > recs.items[recs.limit].predicted_rating
    /\ Len(recs.diverse_books) < Len(recs.filtered_books)

\* ------------------------------------------------------------------------
\* Account operations (account_service.py)
\* ------------------------------------------------------------------------
\* A row of table users is an element of DOMAIN allow; deleting the account
\* removes it.  Columns and tables that no similarity operation reads
\* (is_public, email, username, shelves) are not part of the state here.
MaxAccountOps == 4

\* the filter of the delete statement, outgoing edges only
DeleteSimilaritiesOutgoing(E, user_id) == {e \in E : e.user_id # user_id}

\* delete where user_id == id or neighbor_id == id (lines 116-118, 160-162,
\* 204-206)
DeleteSimilarities(E, user_id) ==
    {e \in E : ~(e.user_id = user_id \/ e.neighbor_id = user_id)}

AccountLast(op, u, found, allow_data_for_recs) ==
    [found |-> found, allow_data_for_recs |-> allow_data_for_recs, before |-> edges]
      @@ LastOp(op, u, <<>>, <<>>, ZeroStats, FALSE)

\* update_privacy_settings(db, user_id, is_public, allow_data_for_recs)
UpdatePrivacySettings(u, allow_data_for_recs) ==
    /\ last' = AccountLast("update_privacy_settings", u, u \in DOMAIN allow, allow_data_for_recs)
    /\ IF u \notin DOMAIN allow
       THEN UNCHANGED <<allow, edges>>
       ELSE IF allow_data_for_recs = None
       THEN UNCHANGED <<allow, edges>>
       ELSE /\ allow' = [allow EXCEPT ![u] = allow_data_for_recs[1]]
            /\ edges' = (IF ~allow_data_for_recs[1]
                         THEN DeleteSimilarities(edges, u) ELSE edges)
    /\ UNCHANGED <<ratings, recs, single, batch>>

\* anonymize_user_data(db, user_id): the ratings stay
AnonymizeUserData(u) ==
    /\ last' = AccountLast("anonymize_user_data", u, u \in DOMAIN allow, None)
    /\ IF u \notin DOMAIN allow
       THEN UNCHANGED <<allow, edges>>
       ELSE /\ allow' = [allow EXCEPT ![u] = FALSE]
            /\ edges' = DeleteSimilarities(edges, u)
    /\ UNCHANGED <<ratings, recs, single, batch>>

\* delete_user_account(db, user_id): edges, ratings and the users row go
DeleteUserAccount(u) ==
    /\ last' = AccountLast("delete_user_account", u, u \in DOMAIN allow, None)
    /\ IF u \notin DOMAIN allow
       THEN UNCHANGED <<ratings, allow, edges>>
       ELSE /\ edges' = DeleteSimilarities(edges, u)
            /\ ratings' = {r \in ratings : r.user_id # u}
            /\ allow' = [v \in DOMAIN allow \ {u} |-> allow[v]]
    /\ UNCHANGED <<recs, single, batch>>

\* Rating tables and opt-in columns the account machine starts from
AccountScenarioA ==
    {Row(1, 1, 5), Row(1, 2, 3), Row(1, 3, 1),
     Row(2, 1, 4), Row(2, 2, 3), Row(2, 3, 2),
     Row(3, 1, 1), Row(3, 2, 3), Row(3, 3, 5),
     Row(4, 1, 5), Row(4, 2, 4), Row(4, 3, 2)}

AccountScenarios == {AccountScenarioA, SimScenarioB}

InitAccount ==
    /\ ratings \in AccountScenarios
    /\ allow \in {[u \in Users |-> TRUE], [u \in Users |-> u # 2]}
    /\ edges = {}
    /\ last = InitLast
    /\ recs = NoRecs
    /\ single = IdleSingle
    /\ batch = IdleBatch
    /\ ops = 0

AccountTick == ops < MaxAccountOps /\ ops' = ops + 1

AccountCompute(u) == AccountTick /\ ComputeUserSimilarity(u)

AccountComputeAll == AccountTick /\ ComputeAll

AccountUpdatePrivacy(u, a) == AccountTick /\ UpdatePrivacySettings(u, a)

AccountAnonymize(u) == AccountTick /\ AnonymizeUserData(u)

AccountDelete(u) == AccountTick /\ DeleteUserAccount(u)

NextAccount ==
    \/ \E u \in Users : AccountCompute(u)
    \/ AccountComputeAll
    \/ \E u \in Users, a \in {None, Some(TRUE), Some(FALSE)} : AccountUpdatePrivacy(u, a)
    \/ \E u \in Users : AccountAnonymize(u)
    \/ \E u \in Users : AccountDelete(u)

SpecAccount == InitAccount /\ [][NextAccount]_vars

\* the users whose data may be used: a row exists and it is opted in
DataAllowed == {u \in DOMAIN allow : allow[u]}

\* C29: no persisted edge has a neighbor_id of a user who is deleted or has
\* allow_data_for_recs false, and right after a user opts out no edge has
\* that user as user_id or as neighbor_id.
C29_NoEdgeToWithdrawnUser ==
    /\ \A e \in edges : e.neighbor_id \in DataAllowed
    /\ (/\ last.op = "update_privacy_settings"
        /\ last.found
        /\ last.allow_data_for_recs = Some(FALSE))
       => \A e \in edges : e.user_id # last.user /\ e.neighbor_id # last.user

\* compute_user_similarity has just run for a user who is opted out and has
\* left edges with that user as user_id, while another account is deleted
C29_Witness ==
    /\ last.op = "compute_user_similarity"
    /\ last.user \in DOMAIN allow
    /\ ~allow[last.user]
    /\ \E e \in edges : e.user_id = last.user
    /\ DOMAIN allow # Users

====
